---- MODULE Spec2Model ----
(***************************************************************************)
(* HealthPulse: the daily pipeline of src/main.py (collection, analysis,   *)
(* delivery) over the tables of src/database (articles, recipients,        *)
(* send_history), with the SQLAlchemy session of get_session as a          *)
(* transaction: rows are written into the session and reach the database   *)
(* only when the with-block commits.                                       *)
(*                                                                         *)
(* Time is a clock of ticks in UTC; TicksPerDay ticks make a calendar day. *)
(* datetime.utcnow() is the clock, datetime.now() is the clock plus the    *)
(* host's UTC offset tz.                                                   *)
(***************************************************************************)
EXTENDS Integers, Sequences, FiniteSets, TLC

\* ---------------------------------------------------------------- bounds
NumRecipients == 2
NumLinks == 2
TicksPerDay == 2
MaxClock == 2
MaxHistory == 2
MaxFeed == 2
MaxDays == 8
MaxScore == 1
MaxLen == 2
MaxMail == 2

\* ------------------------------------------------------ program constants
RecentDays == 7
UnprocessedLimit == 100
MAX_VERIFICATION_ATTEMPTS == 5

Recipients == 1..NumRecipients
Links == 1..NumLinks
\* hash_content, the cleaned title + description of a collected article;
\* the collector returns each link with its own text or with a copy of the text
\* of article 1 (the same story under another link)
Bodies == 1..NumLinks
RawArticles == {ra \in [link : Links, body : Bodies] : ra.body \in {ra.link, 1}}

NoArticle == [stored |-> FALSE]
NoTime == 0 - 1
NoVerification == [stored |-> FALSE]
NoMail == [day |-> NoTime, count |-> 0]

VARIABLES
    clock,            \* datetime.utcnow(), in ticks
    tz,               \* UTC offset of the host's local time, in ticks
    naverCreds,       \* settings.naver_client_id and naver_client_secret are set
    gmailConfigured,  \* GmailSender.is_configured
    articles,         \* table articles (committed), by link
    recipients,       \* table recipients (committed)
    send_history,     \* table send_history (committed), in id order
    alerts,           \* number of calls of AlertNotifier.send_alert
    mode,             \* what main() invoked: daily, collect, process, send
    pc,               \* position of the invocation
    result,           \* how the last invocation ended
    sessArticles,     \* the open session's view of articles
    sessHistory,      \* SendHistory rows flushed in the open session
    existing_hashes,  \* collect_news: existing_hashes
    unprocessed,      \* process_articles: articles still to analyse
    processed_count,  \* process_articles: processed_count
    digest,           \* generate_and_send_reports: articles
    report_date,      \* generate_and_send_reports: report_date
    todo,             \* generate_and_send_reports: recipients still to visit
    attempts,         \* per recipient, what the current delivery run did
    lostMail,         \* per recipient, the UTC day the transport last accepted a mail
                      \* in a run that was killed before its session committed
    feed,             \* what collector.search returns over the keyword loop, in order
    rest,             \* collect_news: the articles of the loops still to come
    store,            \* table articles (committed) row by row, in id order
    sessNew,          \* Article rows flushed in the open session
    fresh,            \* the open collection run began on the current day
    repeat,           \* the open collection run follows a committed run over the same
                      \* collector output, begun on the same day
    settled,          \* a collection run over the current collector output, begun and
                      \* committed on the current day, was the last to commit
    registered,       \* ids of the rows of table recipients
    once,             \* complete_subscription with subscription_type "once": the
                      \* recipient it has stored and will deactivate, or 0
    verifications,    \* table email_verifications (committed), by email
    web_sent,         \* per recipient, the last UTC day a web handler's digest was
                      \* accepted by the transport, and how many were on that day
    call,             \* a function taken alone: the arguments of its call
    ret,              \* a function taken alone: what the call returned
    dedup             \* an ArticleDeduplicator: its fields

vars == <<clock, tz, naverCreds, gmailConfigured, articles, recipients,
          send_history, alerts, mode, pc, result, sessArticles, sessHistory,
          existing_hashes, unprocessed, processed_count, digest, report_date,
          todo, attempts,
          lostMail, feed, rest, store, sessNew, fresh, repeat, settled,
          registered, once, verifications, web_sent, call, ret, dedup>>

storeVars == <<feed, rest, store, sessNew, fresh, repeat, settled>>
webVars == <<registered, once, verifications, web_sent>>
unitVars == <<call, ret>>
instanceVars == <<dedup>>
envVars == <<tz, naverCreds, gmailConfigured, recipients, alerts, storeVars,
            webVars, unitVars, instanceVars>>
dbVars == <<articles, send_history>>
collectVars == <<existing_hashes>>
processVars == <<unprocessed, processed_count>>
deliverVars == <<digest, report_date, todo, attempts>>

\* ------------------------------------------------------------------ time
utcnow == clock
now == clock + tz
\* dt.replace(hour=0, minute=0, second=0, microsecond=0)
DayStart(t) == (t \div TicksPerDay) * TicksPerDay
\* the calendar day of a timestamp
DayOf(t) == t \div TicksPerDay

\* hashlib.sha256(...).hexdigest(), injective on its input
Sha256(s) == <<"sha256", s>>

\* NewsArticle.__post_init__: content_hash of title + description
content_hash(raw) == Sha256(raw.body)

\* --------------------------------------------------------- repositories
StoredLinks(tbl) == {l \in Links : tbl[l].stored}

\* ArticleRepository.create
ArticleCreate(tbl, raw) ==
    [tbl EXCEPT ![raw.link] =
        [stored |-> TRUE, body |-> raw.body, content_hash |-> Sha256(raw.body),
         collected_at |-> utcnow, is_processed |-> FALSE, is_duplicate |-> FALSE,
         is_sent |-> FALSE, processed_at |-> NoTime]]

\* ArticleRepository.exists_by_link
exists_by_link(tbl, link) == tbl[link].stored

\* ArticleRepository.get_recent_hashes
get_recent_hashes(tbl, days) ==
    {tbl[l].content_hash : l \in {k \in StoredLinks(tbl) :
                                    tbl[k].collected_at >= utcnow - days * TicksPerDay}}

\* .order_by(Article.collected_at.desc()).limit(limit)
NewestFirst(tbl, S, limit) ==
    IF Cardinality(S) <= limit THEN S
    ELSE CHOOSE T \in SUBSET S :
            /\ Cardinality(T) = limit
            /\ \A a \in T, b \in S \ T : tbl[a].collected_at >= tbl[b].collected_at

\* get_unprocessed without its is_processed filter
get_unprocessed_again(tbl, limit) ==
    NewestFirst(tbl, {l \in StoredLinks(tbl) : ~tbl[l].is_duplicate}, limit)

\* ArticleRepository.get_unprocessed
get_unprocessed(tbl, limit) ==
    NewestFirst(tbl,
                {l \in StoredLinks(tbl) : ~tbl[l].is_processed /\ ~tbl[l].is_duplicate},
                limit)

\* get_today_articles without its processed_only filter
get_today_articles_unfiltered(tbl, processed_only) ==
    {l \in StoredLinks(tbl) :
        /\ tbl[l].collected_at >= DayStart(utcnow)
        /\ ~tbl[l].is_duplicate}

\* ArticleRepository.get_today_articles
get_today_articles(tbl, processed_only) ==
    {l \in StoredLinks(tbl) :
        /\ tbl[l].collected_at >= DayStart(utcnow)
        /\ ~tbl[l].is_duplicate
        /\ (processed_only => tbl[l].is_processed)}

\* update_analysis finding no row
update_analysis_nowhere(tbl, link) == tbl

\* ArticleRepository.update_analysis: category, summary and importance_score
\* are written with is_processed and processed_at, which stands for them
update_analysis(tbl, link) ==
    IF tbl[link].stored
    THEN [tbl EXCEPT ![link].is_processed = TRUE, ![link].processed_at = utcnow]
    ELSE tbl

\* RecipientRepository.get_all_active, in id order
RECURSIVE ActiveFrom(_)
ActiveFrom(r) ==
    IF r > NumRecipients THEN <<>>
    ELSE (IF recipients[r].is_active THEN <<r>> ELSE <<>>) \o ActiveFrom(r + 1)

\* get_all_active without its is_active filter: every row of the table
RECURSIVE RegisteredFrom(_)
RegisteredFrom(r) ==
    IF r > NumRecipients THEN <<>>
    ELSE (IF r \in registered THEN <<r>> ELSE <<>>) \o RegisteredFrom(r + 1)

get_all_registered == RegisteredFrom(1)

get_all_active == ActiveFrom(1)

\* SendHistoryRepository.create storing every row as a success
SendHistoryCreate_success(recipient_id, rdate, is_success) ==
    [recipient_id |-> recipient_id, report_date |-> rdate,
     is_success |-> TRUE, sent_at |-> utcnow]

\* SendHistoryRepository.create
SendHistoryCreate(recipient_id, rdate, is_success) ==
    [recipient_id |-> recipient_id, report_date |-> rdate,
     is_success |-> is_success, sent_at |-> utcnow]

\* the rows of send_history the open session sees
SessionHistory == send_history \o sessHistory

\* session.commit() storing one row per recipient: a recipient's earlier rows
\* give way to the new one
CommitHistory_replacing(hist, flushed) ==
    LET Kept(row) == \A i \in 1..Len(flushed) :
                        flushed[i].recipient_id # row.recipient_id
    IN SelectSeq(hist, Kept) \o flushed

\* session.commit() of the SendHistory rows the session added
CommitHistory(hist, flushed) == hist \o flushed

\* already_sent_today comparing sent_at > today_start
already_sent_today_strict(recipient_id) ==
    \E i \in 1..Len(SessionHistory) :
        /\ SessionHistory[i].recipient_id = recipient_id
        /\ SessionHistory[i].sent_at > DayStart(utcnow)
        /\ SessionHistory[i].is_success

\* already_sent_today without its is_success filter
already_sent_today_any(recipient_id) ==
    \E i \in 1..Len(SessionHistory) :
        /\ SessionHistory[i].recipient_id = recipient_id
        /\ SessionHistory[i].sent_at >= DayStart(utcnow)

\* SendHistoryRepository.already_sent_today
already_sent_today(recipient_id) ==
    \E i \in 1..Len(SessionHistory) :
        /\ SessionHistory[i].recipient_id = recipient_id
        /\ SessionHistory[i].sent_at >= DayStart(utcnow)
        /\ SessionHistory[i].is_success

\* sent_at of the last successful row of hist for recipient_id
SentAt(hist, recipient_id) ==
    LET S == {i \in 1..Len(hist) : hist[i].recipient_id = recipient_id
                                    /\ hist[i].is_success}
    IN IF S = {} THEN NoTime
       ELSE hist[CHOOSE i \in S : \A j \in S : j <= i].sent_at

\* ------------------------------------------------------------------ init
NoAttempts == [r \in Recipients |-> "none"]

Init ==
    /\ clock = 0
    /\ tz \in 0..(TicksPerDay - 1)
    /\ naverCreds \in BOOLEAN
    /\ gmailConfigured \in BOOLEAN
    /\ articles = [l \in Links |-> NoArticle]
    /\ recipients \in [Recipients -> [is_active : BOOLEAN]]
    /\ send_history = <<>>
    /\ alerts = 0
    /\ mode = "none"
    /\ pc = "idle"
    /\ result = "none"
    /\ sessArticles = articles
    /\ sessHistory = <<>>
    /\ existing_hashes = {}
    /\ unprocessed = {}
    /\ processed_count = 0
    /\ digest = {}
    /\ report_date = NoTime
    /\ todo = <<>>
    /\ attempts = NoAttempts
    /\ lostMail = [r \in Recipients |-> NoTime]
    /\ feed = <<>>
    /\ rest = <<>>
    /\ store = <<>>
    /\ sessNew = <<>>
    /\ fresh = FALSE
    /\ repeat = FALSE
    /\ settled = FALSE
    /\ registered = Recipients
    /\ once = 0
    /\ verifications = [r \in Recipients |-> NoVerification]
    /\ web_sent = [r \in Recipients |-> NoMail]
    /\ call = <<>>
    /\ ret = <<>>
    /\ dedup = <<>>

\* the locals of an invocation, as they are when none is open
Closed ==
    /\ sessArticles' = articles'
    /\ sessHistory' = <<>>
    /\ existing_hashes' = {}
    /\ unprocessed' = {}
    /\ processed_count' = 0
    /\ digest' = {}
    /\ report_date' = NoTime
    /\ todo' = <<>>
    /\ attempts' = NoAttempts

\* the invocation ends with outcome res
Finish(res) ==
    /\ pc' = "idle"
    /\ mode' = "none"
    /\ result' = res
    /\ Closed

\* time passes
Tick ==
    /\ clock < MaxClock
    /\ clock' = clock + 1
    /\ UNCHANGED <<envVars, dbVars, mode, pc, result, sessArticles, sessHistory,
                   collectVars, processVars, deliverVars, lostMail>>

\* main(): --run-once or the scheduler (daily), --collect-only, --process-only,
\* --send-only
Start ==
    /\ pc = "idle"
    /\ \E m \in {"daily", "collect", "process", "send"} :
        /\ mode' = m
        /\ pc' = CASE m = "process" -> "process_begin"
                   [] m = "send" -> "deliver_begin"
                   [] OTHER -> "collect_begin"
    /\ result' = "none"
    /\ UNCHANGED <<clock, envVars, dbVars, sessArticles, sessHistory, collectVars,
                   processVars, deliverVars, lostMail>>

\* the process is killed: the open session is never committed
Kill ==
    /\ pc # "idle"
    /\ lostMail' = [r \in Recipients |->
                       IF attempts[r] = "sent" THEN DayOf(SentAt(sessHistory, r))
                       ELSE lostMail[r]]
    /\ UNCHANGED <<clock, envVars, dbVars>>
    /\ Finish("killed")

\* an exception leaves a stage function: run_daily_job catches it and logs it;
\* a stage invoked alone by main() lets it out
Raise(stage) ==
    IF mode = "daily" THEN Finish("failed_" \o stage) ELSE Finish("raised")

\* run_daily_job going from collection straight to delivery
AfterCollect_skip_analysis(new) ==
    IF mode = "daily"
    THEN IF new = {}
         THEN Finish("no_news")
         ELSE /\ pc' = "deliver_begin"
              /\ UNCHANGED <<mode, result>>
              /\ Closed
    ELSE Finish("returned")

\* run_daily_job after collect_news returned the new articles
AfterCollect(new) ==
    IF mode = "daily"
    THEN IF new = {}
         THEN Finish("no_news")
         ELSE /\ pc' = "process_begin"
              /\ UNCHANGED <<mode, result>>
              /\ Closed
    ELSE Finish("returned")

\* run_daily_job after process_articles returned
AfterProcess ==
    IF mode = "daily"
    THEN /\ pc' = "deliver_begin"
         /\ UNCHANGED <<mode, result>>
         /\ Closed
    ELSE Finish("returned")

\* run_daily_job after generate_and_send_reports returned
AfterDeliver ==
    IF mode = "daily" THEN Finish("done") ELSE Finish("returned")

\* ------------------------------------------------------------ collection
\* collect_news up to the keyword loop
CollectBegin ==
    /\ pc = "collect_begin"
    /\ UNCHANGED <<clock, envVars, lostMail>>
    /\ IF ~naverCreds
       THEN \* NaverNewsCollector() raises ValueError; collect_news returns []
            /\ UNCHANGED dbVars
            /\ AfterCollect({})
       ELSE \E dbOk \in BOOLEAN :
            IF dbOk
            THEN /\ existing_hashes' = get_recent_hashes(articles, RecentDays)
                 /\ pc' = "collecting"
                 /\ UNCHANGED <<dbVars, mode, result, sessArticles, sessHistory,
                                processVars, deliverVars>>
            ELSE /\ UNCHANGED dbVars
                 /\ Raise("collecting")

\* one article returned by collector.search
CollectItem ==
    /\ pc = "collecting"
    /\ \E raw \in RawArticles :
        IF content_hash(raw) \in existing_hashes
        THEN UNCHANGED <<sessArticles, existing_hashes>>
        ELSE IF exists_by_link(sessArticles, raw.link)
             THEN UNCHANGED <<sessArticles, existing_hashes>>
             ELSE /\ sessArticles' = ArticleCreate(sessArticles, raw)
                  /\ existing_hashes' = existing_hashes \cup {content_hash(raw)}
    /\ UNCHANGED <<clock, envVars, dbVars, mode, pc, result, sessHistory,
                   processVars, deliverVars, lostMail>>

\* the with-block of collect_news ends
CollectEnd ==
    /\ pc = "collecting"
    /\ UNCHANGED <<clock, envVars, send_history, lostMail>>
    /\ \E dbOk \in BOOLEAN :
        IF dbOk
        THEN /\ articles' = sessArticles
             /\ AfterCollect(StoredLinks(sessArticles) \ StoredLinks(articles))
        ELSE /\ articles' = articles
             /\ Raise("collecting")

\* -------------------------------------------------------------- analysis
\* process_articles up to the loop
ProcessBegin ==
    /\ pc = "process_begin"
    /\ UNCHANGED <<clock, envVars, dbVars, lostMail>>
    /\ \E dbOk \in BOOLEAN :
        IF dbOk
        THEN /\ unprocessed' = get_unprocessed(articles, UnprocessedLimit)
             /\ processed_count' = 0
             /\ pc' = "processing"
             /\ UNCHANGED <<mode, result, sessArticles, sessHistory, collectVars,
                            deliverVars>>
        ELSE Raise("analyzing")

\* one article of the loop: analysed, or its analysis raised
ProcessItem ==
    /\ pc = "processing"
    /\ unprocessed # {}
    /\ \E l \in unprocessed :
        /\ \A k \in unprocessed :
              sessArticles[l].collected_at >= sessArticles[k].collected_at
        /\ \E ok \in BOOLEAN :
              IF ok
              THEN /\ sessArticles' = update_analysis(sessArticles, l)
                   /\ processed_count' = processed_count + 1
              ELSE UNCHANGED <<sessArticles, processed_count>>
        /\ unprocessed' = unprocessed \ {l}
    /\ UNCHANGED <<clock, envVars, dbVars, mode, pc, result, sessHistory,
                   collectVars, deliverVars, lostMail>>

\* the with-block of process_articles ends
ProcessEnd ==
    /\ pc = "processing"
    /\ unprocessed = {}
    /\ UNCHANGED <<clock, envVars, send_history, lostMail>>
    /\ \E dbOk \in BOOLEAN :
        IF dbOk
        THEN /\ articles' = sessArticles
             /\ AfterProcess
        ELSE /\ articles' = articles
             /\ Raise("analyzing")

\* -------------------------------------------------------------- delivery
\* generate_and_send_reports up to the recipient loop
DeliverBegin ==
    /\ pc = "deliver_begin"
    /\ UNCHANGED <<clock, envVars, dbVars, lostMail>>
    /\ IF ~gmailConfigured
       THEN AfterDeliver
       ELSE \E dbOk \in BOOLEAN :
            IF ~dbOk
            THEN Raise("delivering")
            ELSE IF get_today_articles(articles, TRUE) = {}
                 THEN AfterDeliver
                 ELSE IF get_all_active = <<>>
                      THEN AfterDeliver
                      ELSE /\ digest' = get_today_articles(articles, TRUE)
                           /\ todo' = get_all_active
                           /\ report_date' = now
                           /\ attempts' = NoAttempts
                           /\ pc' = "delivering"
                           /\ UNCHANGED <<mode, result, sessArticles, sessHistory,
                                          collectVars, processVars>>

\* one recipient of the loop
DeliverOne ==
    /\ pc = "delivering"
    /\ todo # <<>>
    /\ LET r == Head(todo) IN
        IF already_sent_today(r)
        THEN /\ attempts' = [attempts EXCEPT ![r] = "skipped"]
             /\ UNCHANGED sessHistory
        ELSE \E outcome \in {"raised", "failed", "sent"} :
             IF outcome = "raised"
             THEN \* generate_daily_report raised: logged, nothing recorded
                  /\ attempts' = [attempts EXCEPT ![r] = "raised"]
                  /\ UNCHANGED sessHistory
             ELSE /\ Len(SessionHistory) < MaxHistory
                  /\ attempts' = [attempts EXCEPT ![r] = outcome]
                  /\ sessHistory' = Append(sessHistory,
                        SendHistoryCreate(r, report_date, outcome = "sent"))
    /\ todo' = Tail(todo)
    /\ UNCHANGED <<clock, envVars, dbVars, mode, pc, result, sessArticles,
                   collectVars, processVars, digest, report_date, lostMail>>

\* the with-block of generate_and_send_reports ends
DeliverEnd ==
    /\ pc = "delivering"
    /\ todo = <<>>
    /\ UNCHANGED <<clock, envVars, articles, lostMail>>
    /\ \E dbOk \in BOOLEAN :
        IF dbOk
        THEN /\ send_history' = CommitHistory(send_history, sessHistory)
             /\ AfterDeliver
        ELSE /\ send_history' = send_history
             /\ Raise("delivering")

Next ==
    \/ Tick
    \/ Start
    \/ Kill
    \/ CollectBegin
    \/ CollectItem
    \/ CollectEnd
    \/ ProcessBegin
    \/ ProcessItem
    \/ ProcessEnd
    \/ DeliverBegin
    \/ DeliverOne
    \/ DeliverEnd

Spec == Init /\ [][Next]_vars

\* ------------------------------------------- the article store, row by row
\* The pipeline above keeps the table articles by link. Here collect_news is
\* taken over the rows of the table, with the unique constraint of
\* articles.link as the database applies it, over spans of days longer than the
\* window of get_recent_hashes, alone (StoreSpec) and beside a second process
\* running collect_news (ConcurrentSpec).

\* the results collector.search can return over one run's keyword loop
Feeds == UNION {[1..n -> RawArticles] : n \in 0..MaxFeed}

\* ArticleRepository.create: the row it adds
ArticleRow(raw) ==
    [link |-> raw.link, content_hash |-> Sha256(raw.body),
     collected_at |-> utcnow, is_duplicate |-> FALSE]

\* the rows the open session reads: the committed ones and its own
SessionRows == store \o sessNew

\* ArticleRepository.exists_by_link, over rows
ExistsByLink(rows, link) == \E i \in DOMAIN rows : rows[i].link = link

\* get_recent_hashes keeping the rows older than the window
RecentHashes_older(rows, days) ==
    {rows[i].content_hash :
        i \in {k \in DOMAIN rows :
                 rows[k].collected_at < utcnow - days * TicksPerDay}}

\* ArticleRepository.get_recent_hashes, over rows
RecentHashes(rows, days) ==
    {rows[i].content_hash :
        i \in {k \in DOMAIN rows :
                 rows[k].collected_at >= utcnow - days * TicksPerDay}}

\* articles.link without its unique constraint
LinkConstraintViolated_never(link) == FALSE

\* unique=True of articles.link: the INSERT of a row with this link fails
\* against the committed rows and against the rows of an open transaction
LinkConstraintViolated(link) == ExistsByLink(store \o sessNew, link)

\* the pipeline's variables, at rest
PipelineAtRest ==
    /\ tz = 0
    /\ gmailConfigured = FALSE
    /\ articles = [l \in Links |-> NoArticle]
    /\ recipients = [r \in Recipients |-> [is_active |-> FALSE]]
    /\ send_history = <<>>
    /\ alerts = 0
    /\ mode = "none"
    /\ result = "none"
    /\ sessArticles = articles
    /\ sessHistory = <<>>
    /\ unprocessed = {}
    /\ processed_count = 0
    /\ digest = {}
    /\ report_date = NoTime
    /\ todo = <<>>
    /\ attempts = NoAttempts
    /\ lostMail = [r \in Recipients |-> NoTime]
    /\ registered = {}
    /\ once = 0
    /\ verifications = [r \in Recipients |-> NoVerification]
    /\ web_sent = [r \in Recipients |-> NoMail]
    /\ call = <<>>
    /\ ret = <<>>
    /\ dedup = <<>>

pipelineVars == <<tz, gmailConfigured, articles, recipients, send_history,
                  alerts, mode, result, sessArticles, sessHistory, processVars,
                  digest, report_date, todo, attempts, lostMail, webVars,
                  unitVars, instanceVars>>

StoreInit ==
    /\ clock = 0
    /\ naverCreds = TRUE
    /\ pc = "idle"
    /\ existing_hashes = {}
    /\ feed \in Feeds
    /\ rest = <<>>
    /\ store = <<>>
    /\ sessNew = <<>>
    /\ fresh = FALSE
    /\ repeat = FALSE
    /\ settled = FALSE
    /\ PipelineAtRest

\* a day passes
DayPasses ==
    /\ clock + TicksPerDay <= MaxDays * TicksPerDay
    /\ clock' = clock + TicksPerDay
    /\ fresh' = FALSE
    /\ settled' = FALSE
    /\ UNCHANGED <<naverCreds, pc, existing_hashes, feed, rest, store, sessNew,
                   repeat, pipelineVars>>

\* the news change: collector.search returns other results from now on
Publish ==
    /\ pc = "idle"
    /\ \E f \in Feeds \ {feed} : feed' = f
    /\ settled' = FALSE
    /\ UNCHANGED <<clock, naverCreds, pc, existing_hashes, rest, store, sessNew,
                   fresh, repeat, pipelineVars>>

\* collect_news up to the keyword loop
StoreCollectBegin ==
    /\ pc = "idle"
    /\ existing_hashes' = RecentHashes(store, RecentDays)
    /\ rest' = feed
    /\ sessNew' = <<>>
    /\ fresh' = TRUE
    /\ repeat' = settled
    /\ pc' = "collecting"
    /\ UNCHANGED <<clock, naverCreds, feed, store, settled, pipelineVars>>

\* the session is rolled back and closed
RolledBack ==
    /\ pc' = "idle"
    /\ existing_hashes' = {}
    /\ rest' = <<>>
    /\ sessNew' = <<>>
    /\ fresh' = FALSE
    /\ repeat' = FALSE
    /\ UNCHANGED <<store, settled>>

\* one article of the loops
StoreCollectItem ==
    /\ pc = "collecting"
    /\ rest # <<>>
    /\ LET raw == Head(rest) IN
        IF content_hash(raw) \in existing_hashes
        THEN /\ rest' = Tail(rest)
             /\ UNCHANGED <<pc, existing_hashes, store, sessNew, fresh, repeat,
                            settled>>
        ELSE IF ExistsByLink(SessionRows, raw.link)
             THEN /\ rest' = Tail(rest)
                  /\ UNCHANGED <<pc, existing_hashes, store, sessNew, fresh,
                                 repeat, settled>>
             ELSE IF LinkConstraintViolated(raw.link)
                  THEN \* session.flush() raises IntegrityError
                       RolledBack
                  ELSE /\ rest' = Tail(rest)
                       /\ sessNew' = Append(sessNew, ArticleRow(raw))
                       /\ existing_hashes' =
                              existing_hashes \cup {content_hash(raw)}
                       /\ UNCHANGED <<pc, store, fresh, repeat, settled>>
    /\ UNCHANGED <<clock, naverCreds, feed, pipelineVars>>

\* the with-block of collect_news ends: the session commits
StoreCollectEnd ==
    /\ pc = "collecting"
    /\ rest = <<>>
    /\ store' = store \o sessNew
    /\ settled' = fresh
    /\ pc' = "idle"
    /\ existing_hashes' = {}
    /\ sessNew' = <<>>
    /\ fresh' = FALSE
    /\ repeat' = FALSE
    /\ UNCHANGED <<clock, naverCreds, feed, rest, pipelineVars>>

\* the process is killed during collect_news
StoreAbort ==
    /\ pc = "collecting"
    /\ RolledBack
    /\ UNCHANGED <<clock, naverCreds, feed, pipelineVars>>

\* collect_news in a second process, for one article it finds new: it reads the
\* committed rows, inserts and commits
PeerCollect ==
    /\ \E raw \in RawArticles :
        /\ content_hash(raw) \notin RecentHashes(store, RecentDays)
        /\ ~ExistsByLink(store, raw.link)
        /\ ~LinkConstraintViolated(raw.link)
        /\ store' = Append(store, ArticleRow(raw))
    /\ UNCHANGED <<clock, naverCreds, pc, existing_hashes, feed, rest, sessNew,
                   fresh, repeat, settled, pipelineVars>>

StoreNext ==
    \/ DayPasses
    \/ Publish
    \/ StoreCollectBegin
    \/ StoreCollectItem
    \/ StoreCollectEnd
    \/ StoreAbort

StoreSpec == StoreInit /\ [][StoreNext]_vars

ConcurrentNext ==
    \/ DayPasses
    \/ Publish
    \/ StoreCollectBegin
    \/ StoreCollectItem
    \/ StoreCollectEnd
    \/ StoreAbort
    \/ PeerCollect

ConcurrentSpec == StoreInit /\ [][ConcurrentNext]_vars

\* ------------------------------------------------ subscribers and delivery
\* The public web routes that write table recipients, beside delivery runs
\* over articles that are collected and analysed.

\* the table articles after a day's collection and analysis
TodaysArticles ==
    update_analysis(ArticleCreate([l \in Links |-> NoArticle],
                                  [link |-> 1, body |-> 1]), 1)

WebInit ==
    /\ clock = 0
    /\ tz = 0
    /\ naverCreds = TRUE
    /\ gmailConfigured = TRUE
    /\ articles = TodaysArticles
    /\ recipients = [r \in Recipients |-> [is_active |-> FALSE]]
    /\ registered = {}
    /\ once = 0
    /\ verifications = [r \in Recipients |-> NoVerification]
    /\ web_sent = [r \in Recipients |-> NoMail]
    /\ send_history = <<>>
    /\ alerts = 0
    /\ mode = "none"
    /\ pc = "idle"
    /\ result = "none"
    /\ sessArticles = articles
    /\ sessHistory = <<>>
    /\ existing_hashes = {}
    /\ unprocessed = {}
    /\ processed_count = 0
    /\ digest = {}
    /\ report_date = NoTime
    /\ todo = <<>>
    /\ attempts = NoAttempts
    /\ lostMail = [r \in Recipients |-> NoTime]
    /\ feed = <<>>
    /\ rest = <<>>
    /\ store = <<>>
    /\ sessNew = <<>>
    /\ fresh = FALSE
    /\ repeat = FALSE
    /\ settled = FALSE
    /\ call = <<>>
    /\ ret = <<>>
    /\ dedup = <<>>

deliveryVars == <<clock, tz, naverCreds, gmailConfigured, alerts, storeVars,
                  unitVars, instanceVars, dbVars, mode, pc, result, sessArticles, sessHistory,
                  collectVars, processVars, deliverVars, lostMail>>

\* main() --send-only, or the scheduled job once its analysis is done
StartDelivery ==
    /\ pc = "idle"
    /\ mode' = "send"
    /\ pc' = "deliver_begin"
    /\ result' = "none"
    /\ UNCHANGED <<clock, envVars, dbVars, sessArticles, sessHistory, collectVars,
                   processVars, deliverVars, lostMail>>

\* the articles query of send_now and complete_subscription: processed and
\* collected since the local midnight
web_today_articles(tbl) ==
    {l \in StoredLinks(tbl) :
        /\ tbl[l].is_processed
        /\ tbl[l].collected_at >= DayStart(now)}

\* the transport accepted a digest of a web handler for recipient r
Received(sent, r) ==
    [sent EXCEPT ![r] = IF @.day = DayOf(utcnow)
                        THEN [day |-> @.day, count |-> @.count + 1]
                        ELSE [day |-> DayOf(utcnow), count |-> 1]]

\* the count of web_sent stays within MaxMail
CanReceive(r) == web_sent[r].day = DayOf(utcnow) => web_sent[r].count < MaxMail

\* send_now and complete_subscription from their articles query on: the
\* digest is rendered and sent; nothing is written to the database
WebSend(r) ==
    IF web_today_articles(articles) # {} /\ gmailConfigured
    THEN \E outcome \in {"raised", "failed", "sent"} :
            IF outcome = "sent"
            THEN CanReceive(r) /\ web_sent' = Received(web_sent, r)
            ELSE UNCHANGED web_sent
    ELSE UNCHANGED web_sent

\* complete_subscription: the Recipient of this email is stored, or stored
\* again as active; with subscription_type "daily" the digest is sent, with
\* "once" the handler goes on
CompleteSubscription ==
    /\ once = 0
    /\ \E r \in Recipients, subscription_type \in {"once", "daily", "daily_only"} :
        /\ registered' = registered \cup {r}
        /\ recipients' = [recipients EXCEPT ![r].is_active = TRUE]
        /\ once' = IF subscription_type = "once" THEN r ELSE 0
        /\ IF subscription_type = "daily" THEN WebSend(r) ELSE UNCHANGED web_sent
    /\ UNCHANGED <<verifications, deliveryVars>>

\* complete_subscription, subscription_type "once": recipient.is_active = False,
\* and the digest is sent
OnceDeactivate ==
    /\ once # 0
    /\ recipients' = [recipients EXCEPT ![once].is_active = FALSE]
    /\ once' = 0
    /\ WebSend(once)
    /\ UNCHANGED <<registered, verifications, deliveryVars>>

\* unsubscribe_confirm, for the token of an active recipient
UnsubscribeConfirm ==
    /\ \E r \in registered :
        /\ recipients[r].is_active
        /\ recipients' = [recipients EXCEPT ![r].is_active = FALSE]
    /\ UNCHANGED <<registered, once, verifications, web_sent, deliveryVars>>

\* send_now, for the email of an active recipient
SendNow ==
    /\ \E r \in registered :
        /\ recipients[r].is_active
        /\ WebSend(r)
    /\ UNCHANGED <<recipients, registered, once, verifications, deliveryVars>>

\* EmailVerification(email, code, is_verified=False, attempts=0), replacing the
\* rows of this email
NewVerification(tbl, r) ==
    [tbl EXCEPT ![r] = [stored |-> TRUE, is_verified |-> FALSE, attempts |-> 0]]

\* subscribe_submit with a name and a well-formed email: a code is issued
\* unless the email is that of an active recipient
SubscribeSubmit ==
    /\ \E r \in Recipients :
        /\ ~(r \in registered /\ recipients[r].is_active)
        /\ verifications' = NewVerification(verifications, r)
    /\ UNCHANGED <<recipients, registered, once, web_sent, deliveryVars>>

\* resend_verification_code
ResendCode ==
    /\ \E r \in Recipients : verifications' = NewVerification(verifications, r)
    /\ UNCHANGED <<recipients, registered, once, web_sent, deliveryVars>>

\* verify_code for the verification_id of a stored row: it has expired or not,
\* the code posted matches or not
VerifyCode ==
    /\ \E r \in Recipients, expired \in BOOLEAN, matches \in BOOLEAN :
        /\ verifications[r].stored
        /\ ~expired
        /\ verifications[r].attempts < MAX_VERIFICATION_ATTEMPTS
        /\ verifications' =
              IF matches
              THEN [verifications EXCEPT ![r].is_verified = TRUE]
              ELSE [verifications EXCEPT ![r].attempts = @ + 1]
    /\ UNCHANGED <<recipients, registered, once, web_sent, deliveryVars>>

\* already_sent_today as a session without rows of its own evaluates it
already_sent_today_committed(recipient_id) ==
    \E i \in 1..Len(send_history) :
        /\ send_history[i].recipient_id = recipient_id
        /\ send_history[i].sent_at >= DayStart(utcnow)
        /\ send_history[i].is_success

\* the rows a delivery run adds for the recipients from r on, given what the
\* transport does for each
RECURSIVE PeerRows(_, _)
PeerRows(r, outcomes) ==
    IF r > NumRecipients THEN <<>>
    ELSE (IF /\ recipients[r].is_active
             /\ ~already_sent_today_committed(r)
             /\ outcomes[r] # "raised"
          THEN <<SendHistoryCreate(r, now, outcomes[r] = "sent")>>
          ELSE <<>>) \o PeerRows(r + 1, outcomes)

\* generate_and_send_reports run by a second process, from its first query to
\* its commit
PeerDelivery ==
    /\ gmailConfigured
    /\ get_today_articles(articles, TRUE) # {}
    /\ get_all_active # <<>>
    /\ \E outcomes \in [Recipients -> {"raised", "failed", "sent"}] :
        /\ PeerRows(1, outcomes) # <<>>
        /\ Len(send_history) + Len(PeerRows(1, outcomes)) <= MaxHistory
        /\ send_history' = CommitHistory(send_history, PeerRows(1, outcomes))
    /\ UNCHANGED <<clock, tz, naverCreds, gmailConfigured, recipients, alerts,
                   storeVars, webVars, unitVars, instanceVars, articles, mode, pc,
                   result, sessArticles, sessHistory, collectVars, processVars,
                   deliverVars, lostMail>>

WebNext ==
    \/ Tick
    \/ StartDelivery
    \/ Kill
    \/ DeliverBegin
    \/ DeliverOne
    \/ DeliverEnd
    \/ CompleteSubscription
    \/ OnceDeactivate
    \/ UnsubscribeConfirm

WebSpec == WebInit /\ [][WebNext]_vars

\* the web routes of a subscription
SubscribeNext ==
    \/ SubscribeSubmit
    \/ ResendCode
    \/ VerifyCode
    \/ CompleteSubscription
    \/ OnceDeactivate
    \/ UnsubscribeConfirm

SubscribeSpec == WebInit /\ [][SubscribeNext]_vars

\* every path that sends the digest: delivery runs of two processes, send_now
\* and complete_subscription
PathsNext ==
    \/ Tick
    \/ StartDelivery
    \/ DeliverBegin
    \/ DeliverOne
    \/ DeliverEnd
    \/ PeerDelivery
    \/ CompleteSubscription
    \/ OnceDeactivate
    \/ SendNow

PathsSpec == WebInit /\ [][PathsNext]_vars

\* ---------------------------------------------------- content selection
\* get_today_articles with its order_by, taken alone over the tables the
\* analysis can leave.

Scores == 0..MaxScore

\* the rows of a link, with the importance_score update_analysis stores
ScoredRows(l) ==
    [stored : {TRUE}, body : {l}, content_hash : {Sha256(l)},
     collected_at : 0..MaxClock, is_processed : BOOLEAN, is_duplicate : BOOLEAN,
     is_sent : {FALSE}, importance_score : Scores]

\* order_by ascending
order_by_importance_asc(tbl, S) ==
    {f \in [1..Cardinality(S) -> S] :
        /\ \A i, j \in DOMAIN f : i # j => f[i] # f[j]
        /\ \A i, j \in DOMAIN f :
              i < j => tbl[f[i]].importance_score <= tbl[f[j]].importance_score}

\* .order_by(Article.importance_score.desc()).all(): the lists the query can
\* return, rows of equal score in any order
order_by_importance(tbl, S) ==
    {f \in [1..Cardinality(S) -> S] :
        /\ \A i, j \in DOMAIN f : i # j => f[i] # f[j]
        /\ \A i, j \in DOMAIN f :
              i < j => tbl[f[i]].importance_score >= tbl[f[j]].importance_score}

\* every variable but clock, articles, call and ret
selectRest == <<tz, naverCreds, gmailConfigured, recipients, send_history,
                alerts, mode, pc, result, sessArticles, sessHistory,
                existing_hashes, processVars, digest, report_date, todo,
                attempts, lostMail, storeVars, webVars, instanceVars>>

\* the variables no function taken alone reads
UnitAtRest ==
    /\ tz = 0
    /\ naverCreds = TRUE
    /\ gmailConfigured = TRUE
    /\ recipients = [r \in Recipients |-> [is_active |-> FALSE]]
    /\ send_history = <<>>
    /\ alerts = 0
    /\ mode = "none"
    /\ pc = "idle"
    /\ result = "none"
    /\ sessHistory = <<>>
    /\ existing_hashes = {}
    /\ unprocessed = {}
    /\ processed_count = 0
    /\ digest = {}
    /\ report_date = NoTime
    /\ todo = <<>>
    /\ attempts = NoAttempts
    /\ lostMail = [r \in Recipients |-> NoTime]
    /\ feed = <<>>
    /\ rest = <<>>
    /\ store = <<>>
    /\ sessNew = <<>>
    /\ fresh = FALSE
    /\ repeat = FALSE
    /\ settled = FALSE
    /\ registered = {}
    /\ once = 0
    /\ verifications = [r \in Recipients |-> NoVerification]
    /\ web_sent = [r \in Recipients |-> NoMail]

SelectInit ==
    /\ clock \in 0..MaxClock
    /\ articles \in [Links -> {NoArticle} \cup UNION {ScoredRows(l) : l \in Links}]
    /\ \A l \in Links :
          articles[l].stored
              => articles[l].body = l /\ articles[l].collected_at <= clock
    /\ sessArticles = articles
    /\ call = <<>>
    /\ ret = <<>>
    /\ dedup = <<>>
    /\ UnitAtRest

\* generate_and_send_reports: articles = get_today_articles(session,
\* processed_only=True)
SelectToday ==
    /\ call = <<>>
    /\ call' = <<"get_today_articles", TRUE>>
    /\ ret' \in order_by_importance(articles, get_today_articles(articles, TRUE))
    /\ UNCHANGED <<clock, articles, selectRest>>

\* the list is dropped
SelectReturn ==
    /\ call # <<>>
    /\ call' = <<>>
    /\ ret' = <<>>
    /\ UNCHANGED <<clock, articles, selectRest>>

SelectNext ==
    \/ SelectToday
    \/ SelectReturn

SelectSpec == SelectInit /\ [][SelectNext]_vars

\* ---------------------------------------------------------- fingerprint
\* ArticleDeduplicator.compute_hash, taken alone over short texts.

\* characters: a letter in both cases, another letter, a blank
Chars == {"A", "a", "b", " "}

Strings == UNION {[1..n -> Chars] : n \in 0..MaxLen}

\* the letters str.lower() changes, and what it makes of them
Cases ==
    <<<<"A", "a">>, <<"B", "b">>, <<"C", "c">>, <<"D", "d">>, <<"E", "e">>,
      <<"F", "f">>, <<"G", "g">>, <<"H", "h">>, <<"I", "i">>, <<"J", "j">>,
      <<"K", "k">>, <<"L", "l">>, <<"M", "m">>, <<"N", "n">>, <<"O", "o">>,
      <<"P", "p">>, <<"Q", "q">>, <<"R", "r">>, <<"S", "s">>, <<"T", "t">>,
      <<"U", "u">>, <<"V", "v">>, <<"W", "w">>, <<"X", "x">>, <<"Y", "y">>,
      <<"Z", "z">>>>

\* str.lower()
lower(s) ==
    [i \in DOMAIN s |->
        IF \E k \in DOMAIN Cases : Cases[k][1] = s[i]
        THEN Cases[CHOOSE k \in DOMAIN Cases : Cases[k][1] = s[i]][2]
        ELSE s[i]]

\* str.strip(): leading blanks, then trailing blanks
RECURSIVE lstrip(_)
lstrip(s) == IF s # <<>> /\ Head(s) = " " THEN lstrip(Tail(s)) ELSE s

RECURSIVE rstrip(_)
rstrip(s) ==
    IF s # <<>> /\ s[Len(s)] = " " THEN rstrip(SubSeq(s, 1, Len(s) - 1)) ELSE s

strip(s) == rstrip(lstrip(s))

\* compute_hash without .lower()
compute_hash_cased(title, content) == Sha256(strip(title \o content))

\* ArticleDeduplicator.compute_hash
compute_hash(title, content) == Sha256(lower(strip(title \o content)))

\* every variable but call and ret
hashRest == <<clock, articles, selectRest>>

HashInit ==
    /\ call \in [title : Strings, content : Strings]
    /\ ret = <<>>
    /\ dedup = <<>>
    /\ clock = 0
    /\ articles = [l \in Links |-> NoArticle]
    /\ sessArticles = articles
    /\ UnitAtRest

\* compute_hash(title, content) is called
ComputeHash ==
    /\ ret = <<>>
    /\ ret' = compute_hash(call.title, call.content)
    /\ UNCHANGED <<call, hashRest>>

\* the next call, with other arguments
HashReturn ==
    /\ ret # <<>>
    /\ call' \in [title : Strings, content : Strings]
    /\ ret' = <<>>
    /\ UNCHANGED hashRest

HashNext ==
    \/ ComputeHash
    \/ HashReturn

HashSpec == HashInit /\ [][HashNext]_vars

\* ------------------------------------------- fingerprints in collection
\* The article loop of collect_news over articles with text: the hash of
\* NewsArticle, the hash ArticleRepository.create stores, and the set
\* existing_hashes the loop tests and extends.

\* the descriptions the search returns
Descriptions == {<<>>, <<"b">>}

\* the items the search returns
Items == [title : Strings, description : Descriptions, link : Links]

\* NewsArticle._clean_html on texts without tags and entities: .strip()
clean_html(text) == IF text = <<>> THEN <<>> ELSE strip(text)

\* NewsArticle.__post_init__
NewsArticle(item) ==
    LET title == clean_html(item.title)
        description == clean_html(item.description)
    IN  [title |-> title, description |-> description, link |-> item.link,
         content_hash |-> Sha256(title \o description)]

\* NewsArticle.to_dict
to_dict(article) ==
    [title |-> article.title, description |-> article.description,
     link |-> article.link]

\* ArticleRepository.create, with the texts
create(tbl, article_data) ==
    [tbl EXCEPT ![article_data.link] =
        [stored |-> TRUE, title |-> article_data.title,
         description |-> article_data.description,
         content_hash |-> Sha256(article_data.title \o article_data.description),
         collected_at |-> utcnow]]

\* one article of the loop of collect_news
CollectArticle ==
    \E item \in Items :
        LET article == NewsArticle(item)
        IN  /\ call' = item
            /\ IF article.content_hash \in existing_hashes
               THEN /\ ret' = <<"duplicate">>
                    /\ UNCHANGED <<articles, existing_hashes>>
               ELSE IF articles[article.link].stored
               THEN /\ ret' = <<"exists_by_link">>
                    /\ UNCHANGED <<articles, existing_hashes>>
               ELSE /\ ret' = <<"created">>
                    /\ articles' = create(articles, to_dict(article))
                    /\ existing_hashes' = existing_hashes \cup {article.content_hash}
            /\ sessArticles' = articles'
            /\ UNCHANGED <<clock, tz, naverCreds, gmailConfigured, recipients,
                           send_history, alerts, mode, pc, result, sessHistory,
                           processVars, deliverVars, lostMail, storeVars,
                           webVars, instanceVars>>

\* collect_news in its loop, the database empty
FingerprintInit ==
    /\ call = <<>>
    /\ ret = <<>>
    /\ dedup = <<>>
    /\ clock = 0
    /\ articles = [l \in Links |-> NoArticle]
    /\ sessArticles = articles
    /\ UnitAtRest

FingerprintNext == CollectArticle

FingerprintSpec == FingerprintInit /\ [][FingerprintNext]_vars

\* ------------------------------------------------------ fingerprint store
\* One ArticleDeduplicator and the calls made on it: check_duplicate and
\* clear_cache. Similarities are in hundredths: 1.0 is 100.

\* similarity_threshold, by default
DefaultThreshold == 85

\* None, and an empty dict or list
None == <<>>

\* the thresholds an instance is constructed with
Thresholds == {0, DefaultThreshold, 100}

\* the articles checked: a title in both cases, another title
DedupArticles == [title : {<<"A">>, <<"a">>, <<"b">>}, content : {<<>>}]

Hashes == {compute_hash(a.title, a.content) : a \in DedupArticles}

\* what model.encode returns for an article: the null vector, and two
\* directions closer to each other than the default threshold
Embeddings == {<<0, 0>>, <<3, 4>>, <<4, 3>>}

\* the embeddings stored with earlier articles: one direction farther from
\* <<3, 4>> than the default threshold, and <<4, 3>>
StoredEmbeddings == {<<1, 0>>, <<4, 3>>}

\* existing_embeddings, a dict of hash to embedding, in the order of its items
EmbeddingDicts ==
    {None}
        \cup {<<<<h, e>>>> : h \in Hashes, e \in StoredEmbeddings}
        \cup {d \in {<<<<h1, e1>>, <<h2, e2>>>> :
                         h1 \in Hashes, h2 \in Hashes,
                         e1 \in StoredEmbeddings, e2 \in StoredEmbeddings} :
                  d[1][1] # d[2][1] /\ d[1][2] # d[2][2]}

\* np.dot
Dot(vec1, vec2) == vec1[1] * vec2[1] + vec1[2] * vec2[2]

\* np.linalg.norm
Norm(vec) == CHOOSE n \in 0..Dot(vec, vec) : n * n = Dot(vec, vec)

\* ArticleDeduplicator.cosine_similarity
cosine_similarity(vec1, vec2) ==
    IF vec1 = None \/ vec2 = None
    THEN 0
    ELSE IF Norm(vec1) = 0 \/ Norm(vec2) = 0
         THEN 0
         ELSE (100 * Dot(vec1, vec2)) \div (Norm(vec1) * Norm(vec2))

\* DuplicateResult
DuplicateResult(is_duplicate, similarity_score, matched_hash) ==
    [is_duplicate |-> is_duplicate,
     similarity_score |-> similarity_score,
     matched_hash |-> matched_hash]

\* ArticleDeduplicator.__init__
NewDeduplicator(model, similarity_threshold) ==
    [model |-> model,
     similarity_threshold |-> similarity_threshold,
     hash_cache |-> {},
     embedding_cache |-> {}]

\* the exact match of check_duplicate, without the hashes of the caller
KnownHash_cached_only(self, new_hash, hashes) == new_hash \in self.hash_cache

\* check_duplicate: new_hash is in _hash_cache or in existing_hashes
KnownHash(self, new_hash, hashes) ==
    new_hash \in self.hash_cache \/ new_hash \in hashes

\* a hash that is not kept
HashCached_dropped(self, new_hash) == self

\* a hash that takes the place of the hashes kept
HashCached_alone(self, new_hash) ==
    [self EXCEPT !.hash_cache = {new_hash}]

\* self._hash_cache.add(new_hash)
HashCached(self, new_hash) ==
    [self EXCEPT !.hash_cache = @ \cup {new_hash}]

\* self._embedding_cache[new_hash] = new_embedding
EmbeddingCached(self, new_hash, new_embedding) ==
    [self EXCEPT !.embedding_cache =
        {item \in @ : item[1] # new_hash} \cup {<<new_hash, new_embedding>>}]

\* check_duplicate, the loop over existing_embeddings.items(): the greatest
\* similarity above the one held, and the hash it was first met with
RECURSIVE MostSimilar(_, _, _, _)
MostSimilar(new_embedding, items, max_similarity, matched_hash) ==
    IF items = <<>>
    THEN [max_similarity |-> max_similarity, matched_hash |-> matched_hash]
    ELSE LET similarity == cosine_similarity(new_embedding, Head(items)[2])
         IN  IF similarity > max_similarity
             THEN MostSimilar(new_embedding, Tail(items), similarity,
                              Head(items)[1])
             ELSE MostSimilar(new_embedding, Tail(items), max_similarity,
                              matched_hash)

\* ArticleDeduplicator.check_duplicate; encoded is what compute_embedding
\* returns if it is called. The value is the instance after the call, the
\* DuplicateResult, whether compute_embedding was called, and new_embedding.
check_duplicate(self, title, content, hashes, embeddings, encoded) ==
    LET new_hash == compute_hash(title, content)
        best == MostSimilar(encoded, embeddings, 0, None)
    IN  IF KnownHash(self, new_hash, hashes)
        THEN [self |-> self,
              result |-> DuplicateResult(TRUE, 100, new_hash),
              embedded |-> FALSE,
              new_embedding |-> None]
        ELSE IF self.model /\ embeddings # None /\ encoded # None
        THEN IF best.max_similarity >= self.similarity_threshold
             THEN [self |-> self,
                   result |-> DuplicateResult(TRUE, best.max_similarity,
                                              best.matched_hash),
                   embedded |-> TRUE,
                   new_embedding |-> encoded]
             ELSE [self |-> EmbeddingCached(HashCached(self, new_hash),
                                            new_hash, encoded),
                   result |-> DuplicateResult(FALSE, best.max_similarity, None),
                   embedded |-> TRUE,
                   new_embedding |-> encoded]
        ELSE [self |-> HashCached(self, new_hash),
              result |-> DuplicateResult(FALSE, 0, None),
              embedded |-> self.model /\ embeddings # None,
              new_embedding |-> None]

\* check_duplicate_simple looking into the cache as check_duplicate does
check_duplicate_simple_cached(self, title, content, hashes) ==
    KnownHash(self, compute_hash(title, content), hashes)

\* ArticleDeduplicator.check_duplicate_simple
check_duplicate_simple(self, title, content, hashes) ==
    compute_hash(title, content) \in hashes

\* clear_cache that leaves the hashes
clear_cache_embeddings(self) == [self EXCEPT !.embedding_cache = {}]

\* ArticleDeduplicator.clear_cache
clear_cache(self) ==
    [self EXCEPT !.hash_cache = {}, !.embedding_cache = {}]

\* every variable but call, ret and dedup
dedupRest == <<clock, articles, tz, naverCreds, gmailConfigured, recipients,
               send_history, alerts, mode, pc, result, sessArticles,
               sessHistory, existing_hashes, processVars, digest, report_date,
               todo, attempts, lostMail, storeVars, webVars>>

\* deduplicator = ArticleDeduplicator(similarity_threshold), with or without
\* the Sentence-BERT model of _get_model
DedupInit ==
    /\ dedup \in {NewDeduplicator(m, t) : m \in BOOLEAN, t \in Thresholds}
    /\ call = [op |-> "__init__"]
    /\ ret = None
    /\ clock = 0
    /\ articles = [l \in Links |-> NoArticle]
    /\ sessArticles = articles
    /\ UnitAtRest

\* deduplicator.check_duplicate(title, content, existing_hashes,
\* existing_embeddings)
CheckDuplicate ==
    \E a \in DedupArticles, hashes \in SUBSET Hashes,
       embeddings \in EmbeddingDicts, encoded \in Embeddings \cup {None} :
        LET out == check_duplicate(dedup, a.title, a.content, hashes,
                                   embeddings, encoded)
        IN  /\ call' = [op |-> "check_duplicate",
                        title |-> a.title,
                        content |-> a.content,
                        existing_hashes |-> hashes,
                        existing_embeddings |-> embeddings]
            /\ ret' = [result |-> out.result,
                       embedded |-> out.embedded,
                       new_embedding |-> out.new_embedding]
            /\ dedup' = out.self
            /\ UNCHANGED dedupRest

\* deduplicator.clear_cache()
ClearCache ==
    /\ call' = [op |-> "clear_cache"]
    /\ ret' = None
    /\ dedup' = clear_cache(dedup)
    /\ UNCHANGED dedupRest

\* deduplicator.check_duplicate_simple(title, content, existing_hashes)
CheckDuplicateSimple ==
    \E a \in DedupArticles, hashes \in SUBSET Hashes :
        /\ call' = [op |-> "check_duplicate_simple",
                    title |-> a.title,
                    content |-> a.content,
                    existing_hashes |-> hashes]
        /\ ret' = [result |-> check_duplicate_simple(dedup, a.title, a.content,
                                                     hashes)]
        /\ UNCHANGED <<dedup, dedupRest>>

DedupNext ==
    \/ CheckDuplicate
    \/ CheckDuplicateSimple
    \/ ClearCache

DedupSpec == DedupInit /\ [][DedupNext]_vars

\* ------------------------------------------------------------ classifier
\* ArticleClassifier.classify and classify_batch, taken alone. A text is the
\* sequence of its characters: a Hangul syllable is written with the letters
\* of its initial (x for the silent one), its vowel and its final, every
\* other character is itself.

\* CategoryType, in the order of its members
CategoryType ==
    <<"REGULATORY", "MARKET", "TECHNOLOGY", "COMPETITOR", "PRODUCT", "GENERAL">>

\* CATEGORY_KEYWORDS
CATEGORY_KEYWORDS ==
    [REGULATORY |->
        <<<<"sig", "xyag", "cheo">>, <<"F", "D", "A">>,
          <<"xin", "heo", "ga">>, <<"gyu", "je">>, <<"seung", "xin">>,
          <<"heo", "ga">>, <<"xui", "ryo", "gi", "gi", "beob">>,
          <<"xim", "sang", "si", "heom", " ", "seung", "xin">>,
          <<"pum", "mog", "heo", "ga">>, <<"G", "M", "P">>,
          <<"xin", "jeung">>, <<"C", "E", "ma", "keu">>,
          <<"M", "F", "D", "S">>,
          <<"gyu", "je", " ", "saen", "deu", "bag", "seu">>,
          <<"xui", "ryo", "gi", "gi", " ", "sim", "sa">>,
          <<"heo", "ga", " ", "sim", "sa">>>>,
     MARKET |->
        <<<<"si", "jang">>, <<"tu", "ja">>, <<"M", "&", "A">>,
          <<"I", "P", "O">>, <<"xin", "su">>, <<"hab", "byeong">>,
          <<"peon", "ding">>, <<"sang", "jang">>,
          <<"si", "jang", "gyu", "mo">>, <<"mae", "chul">>,
          <<"seong", "jang", "ryul">>, <<"tu", "ja", "xyu", "chi">>,
          <<"gi", "xeob", "ga", "chi">>, <<"si", "ga", "chong", "xaeg">>,
          <<"bun", "gi", "sil", "jeog">>, <<"mae", "gag">>,
          <<"seu", "ta", "teu", "xeob">>>>,
     TECHNOLOGY |->
        <<<<"xim", "sang", "si", "heom">>, <<"xyeon", "gu">>,
          <<"gae", "bal">>, <<"teug", "heo">>, <<"gi", "sul">>, <<"A", "I">>,
          <<"sin", "gi", "sul">>, <<"ba", "xi", "xo", "ma", "keo">>,
          <<"xyu", "jeon", "ja">>, <<"jin", "dan", "gi", "sul">>,
          <<"xal", "go", "ri", "jeum">>, <<"jeong", "hwag", "do">>,
          <<"min", "gam", "do">>, <<"teug", "xi", "do">>, <<"R", "&", "D">>,
          <<"xyeon", "gu", "gae", "bal">>, <<"non", "mun">>, <<"hag", "hoe">>>>,
     COMPETITOR |->
        <<<<"ssi", "jen">>, <<"S", "D", "ba", "xi", "xo", "sen", "seo">>,
          <<"su", "jen", "teg">>, <<"rae", "pi", "jen">>,
          <<"hyu", "ma", "si", "seu">>, <<"nog", "sib", "ja", "M", "S">>,
          <<"ba", "di", "teg", "me", "deu">>, <<"pi", "ssi", "xel">>,
          <<"jen", "kyu", "rig", "seu">>, <<"ma", "keu", "ro", "jen">>,
          <<"ro", "syu">>, <<"xae", "bo", "teu">>, <<"ji", "men", "seu">>,
          <<"da", "na", "heo">>, <<"sseo", "mo", "pi", "syeo">>>>,
     PRODUCT |->
        <<<<"sin", "je", "pum">>, <<"chul", "si">>, <<"reon", "ching">>,
          <<"je", "pum">>, <<"seo", "bi", "seu">>, <<"sol", "ru", "syeon">>,
          <<"ki", "teu">>, <<"peul", "raes", "pom">>, <<"si", "seu", "tem">>,
          <<"jang", "bi">>, <<"gi", "gi">>, <<"xwe", "xeo", "reo", "beul">>,
          <<"xaeb">>, <<"xeo", "peul", "ri", "ke", "xi", "syeon">>,
          <<"so", "peu", "teu", "xwe", "xeo">>>>]

\* ArticleClassifier.CATEGORY_MAP
CATEGORY_MAP ==
    [digit \in {"1", "2", "3", "4", "5", "6"} |->
        CategoryType[CHOOSE i \in DOMAIN CategoryType :
                         <<"1", "2", "3", "4", "5", "6">>[i] = digit]]

\* Optional[CategoryType]: None
NoCategory == "None"

\* sub in text
In(sub, text) ==
    \E i \in 1..(Len(text) - Len(sub) + 1) :
        SubSeq(text, i, i + Len(sub) - 1) = sub

\* max(scores, key=scores.get), taking the last of the greatest
max_by_score_last(scores) ==
    CHOOSE c \in DOMAIN scores :
        /\ \A d \in DOMAIN scores : scores[d] <= scores[c]
        /\ \A d \in DOMAIN scores : d > c => scores[d] < scores[c]

\* max(scores, key=scores.get): the first of the greatest, in the order of
\* the dict, which is the order of CategoryType
max_by_score(scores) ==
    CHOOSE c \in DOMAIN scores :
        /\ \A d \in DOMAIN scores : scores[d] <= scores[c]
        /\ \A d \in DOMAIN scores : d < c => scores[d] < scores[c]

\* ArticleClassifier._classify_by_keywords
classify_by_keywords(title, content) ==
    LET text == lower(title \o <<" ">> \o content)
        scores ==
            [c \in DOMAIN CategoryType |->
                IF CategoryType[c] \in DOMAIN CATEGORY_KEYWORDS
                THEN LET keywords == CATEGORY_KEYWORDS[CategoryType[c]]
                     IN  Cardinality({k \in DOMAIN keywords :
                                         In(lower(keywords[k]), text)})
                ELSE 0]
        max_category == max_by_score(scores)
    IN  IF scores[max_category] = 0
        THEN "GENERAL"
        ELSE CategoryType[max_category]

\* what self._client.generate does: it raises, or it returns a response
Generated(raises, response) == [raises |-> raises, response |-> response]

\* _classify_with_ollama returning GENERAL for a response without a digit
classify_with_ollama_general(generate) ==
    IF generate.raises # "no"
    THEN NoCategory
    ELSE LET answer == strip(generate.response)
             digits == {i \in DOMAIN answer : answer[i] \in DOMAIN CATEGORY_MAP}
         IN  IF digits # {}
             THEN CATEGORY_MAP[answer[CHOOSE i \in digits :
                                          \A j \in digits : i <= j]]
             ELSE "GENERAL"

\* ArticleClassifier._classify_with_ollama
classify_with_ollama(generate) ==
    IF generate.raises # "no"
    THEN NoCategory
    ELSE LET answer == strip(generate.response)
             digits == {i \in DOMAIN answer : answer[i] \in DOMAIN CATEGORY_MAP}
         IN  IF digits # {}
             THEN CATEGORY_MAP[answer[CHOOSE i \in digits :
                                          \A j \in digits : i <= j]]
             ELSE NoCategory

\* ArticleClassifier.classify
classify(self, title, content, generate) ==
    IF /\ self.available
       /\ self.use_ollama
       /\ classify_with_ollama(generate) # NoCategory
    THEN classify_with_ollama(generate)
    ELSE classify_by_keywords(title, content)

\* dict.get
Get(d, key, default) == IF key \in DOMAIN d THEN d[key] ELSE default

\* classify_batch giving every article the category of the first
classify_batch_first(self, batch, generate) ==
    [i \in DOMAIN batch |->
        classify(self,
                 Get(batch[1], "title", <<>>),
                 Get(batch[1], "content",
                     Get(batch[1], "description", <<>>)),
                 generate[1])]

\* ArticleClassifier.classify_batch; generate[i] is what the backend does when
\* it is called for the i-th article
RECURSIVE classify_batch(_, _, _)
classify_batch(self, batch, generate) ==
    IF batch = <<>>
    THEN <<>>
    ELSE <<classify(self,
                    Get(Head(batch), "title", <<>>),
                    Get(Head(batch), "content",
                        Get(Head(batch), "description", <<>>)),
                    Head(generate))>>
             \o classify_batch(self, Tail(batch), Tail(generate))

\* the longest response of the backend, and the longest batch
MaxResponse == 2
MaxBatch == 2

\* words of a title: keywords of four categories, one of them in both cases,
\* and a word that is no keyword
Words ==
    {<<"F", "D", "A">>, <<"f", "d", "a">>, <<"seung", "xin">>,
     <<"si", "jang">>, <<"A", "I">>, <<"ssi", "jen">>, <<"chul", "si">>,
     <<"sin", "je", "pum">>, <<"nal", "ssi">>}

Titles ==
    {<<>>} \cup Words \cup {w1 \o <<" ">> \o w2 : w1 \in Words, w2 \in Words}

Contents == {<<>>, <<"si", "jang">>, <<"ssi", "jen">>}

\* tests/test_classifier.py, test_classify_competitor
CompetitorTitle ==
    <<"ssi", "jen", ",", " ", "bun", "ja", "jin", "dan", " ", "sin", "je",
        "pum", " ", "chul", "si", ".", ".", ".", " ", "geul", "ro", "beol",
        " ", "si", "jang", " ", "gong", "ryag">>

CompetitorContent ==
    <<"ssi", "jen", "xi", " ", "sae", "ro", "xun", " ", "bun", "ja", "jin",
        "dan", " ", "je", "pum", "xeul", " ", "chul", "si", "ha", "myeo", " ",
        "geul", "ro", "beol", " ", "si", "jang", " ", "hwag", "dae", "xe",
        " ", "na", "seon", "da", ".">>

\* ArticleClassifier.__init__: use_ollama, and _available, which is set only
\* with use_ollama
Classifiers ==
    {c \in [use_ollama : BOOLEAN, available : BOOLEAN] :
        c.available => c.use_ollama}

\* the responses of the model: digits, a blank, another character
Responses ==
    UNION {[1..n -> {"1", "2", "3", "4", "5", "6", "7", " ", "x"}] :
              n \in 0..MaxResponse}

\* what the backend does on a call; nothing is asked of a backend that is
\* not in use
Generations(self) ==
    IF self.available /\ self.use_ollama
    THEN {Generated("no", r) : r \in Responses}
             \cup {Generated(e, <<>>) : e \in {"ResponseError", "Timeout"}}
    ELSE {Generated("ResponseError", <<>>)}

\* the articles of a batch: dicts with a title and a content, a title and a
\* description, a content alone, nothing
BatchArticles ==
    {[title |-> <<"F", "D", "A">>, content |-> <<>>],
     [title |-> <<"ssi", "jen">>, description |-> <<"chul", "si">>],
     [content |-> <<"si", "jang">>],
     <<>>}

\* what the backend does on the calls of a batch
BatchGenerations(self) ==
    {g \in Generations(self) : g.response \in {<<>>, <<"4">>, <<"x">>}}

\* every variable but call and ret
classifyRest == <<dedup, dedupRest>>

\* one call of classify or of classify_batch, on any classifier
ClassifyInit ==
    /\ \/ \E s \in Classifiers, t \in Titles \cup {CompetitorTitle},
             c \in Contents \cup {CompetitorContent} :
              \E g \in Generations(s) :
                  call = [op |-> "classify", self |-> s, title |-> t,
                          content |-> c, generate |-> g]
       \/ \E s \in Classifiers, n \in 0..MaxBatch :
              \E batch \in [1..n -> BatchArticles],
                 gs \in [1..n -> BatchGenerations(s)] :
                  call = [op |-> "classify_batch", self |-> s,
                          articles |-> batch, generate |-> gs]
    /\ ret = <<>>
    /\ dedup = <<>>
    /\ clock = 0
    /\ articles = [l \in Links |-> NoArticle]
    /\ sessArticles = articles
    /\ UnitAtRest

\* classifier.classify(title, content) returns
Classify ==
    /\ call.op = "classify"
    /\ ret = <<>>
    /\ ret' = <<classify(call.self, call.title, call.content, call.generate)>>
    /\ UNCHANGED <<call, classifyRest>>

\* classifier.classify_batch(articles) returns
ClassifyBatch ==
    /\ call.op = "classify_batch"
    /\ ret = <<>>
    /\ ret' = <<classify_batch(call.self, call.articles, call.generate)>>
    /\ UNCHANGED <<call, classifyRest>>

ClassifyNext ==
    \/ Classify
    \/ ClassifyBatch

ClassifySpec == ClassifyInit /\ [][ClassifyNext]_vars

\* ---------------------------------------------------------- importance
\* OllamaSummarizer.score_importance, taken alone. Scores are in hundredths:
\* 1.0 is 100.

\* _fallback_importance: high_keywords, medium_keywords, low_keywords
high_keywords ==
    <<<<"f", "d", "a">>, <<"sig", "xyag", "cheo">>, <<"seung", "xin">>,
      <<"xin", "heo", "ga">>, <<"gyu", "je">>, <<"heo", "ga">>>>

medium_keywords ==
    <<<<"tu", "ja">>, <<"m", "&", "a">>, <<"xin", "su">>, <<"si", "jang">>,
      <<"xim", "sang">>, <<"xyeon", "gu">>, <<"teug", "heo">>>>

low_keywords ==
    <<<<"haeng", "sa">>, <<"xi", "ben", "teu">>, <<"xin", "teo", "byu">>,
      <<"gi", "go">>>>

\* the keywords of a list that are in the text
Hits(keywords, text) ==
    Cardinality({k \in DOMAIN keywords : In(keywords[k], text)})

\* a score returned as it is
Clamped_not(score) == score

\* min(max(score, 0.0), 1.0)
Clamped(score) == IF score < 0 THEN 0 ELSE IF score > 100 THEN 100 ELSE score

\* _fallback_importance with the weight of a high keyword for a medium one
fallback_importance_unweighted(title, content) ==
    LET text == lower(title \o <<" ">> \o content)
    IN  Clamped(50 + 10 * Hits(high_keywords, text)
                   + 10 * Hits(medium_keywords, text)
                   - 10 * Hits(low_keywords, text))

\* _fallback_importance with the weights of high and low keywords exchanged
fallback_importance_inverted(title, content) ==
    LET text == lower(title \o <<" ">> \o content)
    IN  Clamped(50 - 10 * Hits(high_keywords, text)
                   + 5 * Hits(medium_keywords, text)
                   + 10 * Hits(low_keywords, text))

\* OllamaSummarizer._fallback_importance
fallback_importance(title, content) ==
    LET text == lower(title \o <<" ">> \o content)
    IN  Clamped(50 + 10 * Hits(high_keywords, text)
                   + 5 * Hits(medium_keywords, text)
                   - 10 * Hits(low_keywords, text))

\* \d
Digits == <<"0", "1", "2", "3", "4", "5", "6", "7", "8", "9">>

IsDigit(c) == \E d \in DOMAIN Digits : Digits[d] = c

\* \d+ or \d* at position i of s: the length of the run of digits
DigitRun(s, i) ==
    CHOOSE n \in 0..(Len(s) + 1 - i) :
        /\ \A k \in i..(i + n - 1) : IsDigit(s[k])
        /\ i + n > Len(s) \/ ~IsDigit(s[i + n])

\* int of a run of digits
RECURSIVE DigitsValue(_)
DigitsValue(s) ==
    IF s = <<>>
    THEN 0
    ELSE 10 * DigitsValue(SubSeq(s, 1, Len(s) - 1))
             + (CHOOSE d \in DOMAIN Digits : Digits[d] = s[Len(s)]) - 1

\* float(match.group(1)) for the first match of (\d+\.?\d*) in s, which has
\* a digit: the digits before the point, and the first two after it
FirstNumber(s) ==
    LET start == CHOOSE i \in DOMAIN s :
                     IsDigit(s[i]) /\ \A j \in 1..(i - 1) : ~IsDigit(s[j])
        whole == DigitRun(s, start)
        point == start + whole
        decimals == IF point <= Len(s) /\ s[point] = "."
                    THEN SubSeq(s, point + 1, point + DigitRun(s, point + 1))
                    ELSE <<>>
        padded == SubSeq(decimals \o <<"0", "0">>, 1, 2)
    IN  100 * DigitsValue(SubSeq(s, start, point - 1)) + DigitsValue(padded)

\* OllamaSummarizer.score_importance
score_importance(self, title, content, generate) ==
    IF ~self.available
    THEN fallback_importance(title, content)
    ELSE IF generate.raises # "no"
    THEN fallback_importance(title, content)
    ELSE LET score_text == strip(generate.response)
         IN  IF \E i \in DOMAIN score_text : IsDigit(score_text[i])
             THEN Clamped(FirstNumber(score_text))
             ELSE fallback_importance(title, content)

\* the longest answer of the backend to the importance prompt
MaxAnswer == 4

\* the words of a title, high keywords one of which holds another, and of a
\* content, medium and low keywords and a word that is none
TitleWords ==
    <<<<"F", "D", "A">>, <<"sig", "xyag", "cheo">>, <<"seung", "xin">>,
      <<"xin", "heo", "ga">>, <<"gyu", "je">>>>

ContentWords ==
    <<<<"si", "jang">>, <<"M", "&", "A">>, <<"haeng", "sa">>,
      <<"xin", "teo", "byu">>, <<"nal", "ssi">>>>

\* the words of a list picked by S, in order, a blank between two
RECURSIVE Sentence(_, _, _)
Sentence(words, S, n) ==
    IF n = 0
    THEN <<>>
    ELSE LET before == Sentence(words, S, n - 1)
         IN  IF n \notin S
             THEN before
             ELSE IF before = <<>>
             THEN words[n]
             ELSE before \o <<" ">> \o words[n]

Sentences(words) ==
    {Sentence(words, S, Len(words)) : S \in SUBSET DOMAIN words}

\* the answers of the model: digits, a point, a sign, another character
Answers ==
    UNION {[1..n -> {"0", "1", "5", ".", "-", "x"}] : n \in 0..MaxAnswer}

\* one call of score_importance: on a summarizer without backend with any
\* text, on one with a backend with any answer
ScoreInit ==
    /\ \/ \E t \in Sentences(TitleWords), c \in Sentences(ContentWords) :
              call = [op |-> "score_importance",
                      self |-> [available |-> FALSE],
                      title |-> t, content |-> c,
                      generate |-> Generated("ResponseError", <<>>)]
       \/ \E t \in {<<>>, Sentence(TitleWords, DOMAIN TitleWords,
                                   Len(TitleWords))},
             c \in {<<>>, Sentence(ContentWords, DOMAIN ContentWords,
                                   Len(ContentWords))},
             g \in {Generated("no", r) : r \in Answers}
                       \cup {Generated(e, <<>>) :
                                e \in {"ResponseError", "Timeout"}} :
              call = [op |-> "score_importance",
                      self |-> [available |-> TRUE],
                      title |-> t, content |-> c, generate |-> g]
    /\ ret = <<>>
    /\ dedup = <<>>
    /\ clock = 0
    /\ articles = [l \in Links |-> NoArticle]
    /\ sessArticles = articles
    /\ UnitAtRest

\* summarizer.score_importance(title, content) returns
ScoreImportance ==
    /\ call.op = "score_importance"
    /\ ret = <<>>
    /\ ret' = <<score_importance(call.self, call.title, call.content,
                                 call.generate)>>
    /\ UNCHANGED <<call, classifyRest>>

ScoreNext == ScoreImportance

ScoreSpec == ScoreInit /\ [][ScoreNext]_vars

\* ---------------------------------------------------------------- claims
\* recipient r holds a successful row of hist sent on UTC day d
SentOn(hist, r, d) ==
    \E i \in 1..Len(hist) :
        /\ hist[i].recipient_id = r
        /\ hist[i].is_success
        /\ DayOf(hist[i].sent_at) = d

\* recipient r holds a failed row of hist sent on UTC day d
FailedOn(hist, r, d) ==
    \E i \in 1..Len(hist) :
        /\ hist[i].recipient_id = r
        /\ ~hist[i].is_success
        /\ DayOf(hist[i].sent_at) = d

\* this step hands a mail for r to the transport
SendAttempted(r) ==
    /\ attempts'[r] # attempts[r]
    /\ attempts'[r] \in {"failed", "sent"}

\* this step starts the per-recipient procedure for r (r is not skipped)
ProcedureStarted(r) ==
    /\ attempts'[r] # attempts[r]
    /\ attempts'[r] \in {"raised", "failed", "sent"}

\* this step adds a SendHistory row for r to the session
RecordAppended(r) ==
    /\ Len(sessHistory') = Len(sessHistory) + 1
    /\ sessHistory'[Len(sessHistory')].recipient_id = r

\* C1: idempotent delivery. Once a successful SendRecord of a recipient is
\* committed, a delivery run reaching that recipient on the same reporting date
\* (the UTC calendar day that keys the already-sent-today guard) hands nothing
\* to the transport for that recipient and adds no SendRecord for them.
C1_IdempotentDelivery ==
    [][\A r \in Recipients :
          SentOn(send_history, r, DayOf(utcnow))
              => ~SendAttempted(r) /\ ~RecordAppended(r)]_vars

\* a later run has skipped a recipient holding a committed success of today
C1_Witness ==
    \E r \in Recipients :
        /\ pc = "delivering"
        /\ attempts[r] = "skipped"
        /\ SentOn(send_history, r, DayOf(utcnow))

\* C2: for every recipient and every reporting date (the calendar day of the
\* SendRecord's report_date) at most one SendRecord has success = true.
C2_OneSuccessPerReportDate ==
    \A i, j \in 1..Len(send_history) :
        (/\ i < j
         /\ send_history[i].recipient_id = send_history[j].recipient_id
         /\ send_history[i].is_success
         /\ send_history[j].is_success)
            => DayOf(send_history[i].report_date) # DayOf(send_history[j].report_date)

\* C3: a recipient to whom the transport sent the digest in a run that was then
\* killed is not sent to again by a later run on the same day.
C3_NoResendAfterKill ==
    [][\A r \in Recipients :
          (lostMail[r] # NoTime /\ lostMail[r] = DayOf(utcnow))
              => ~SendAttempted(r)]_vars

\* C4: every recipient for whom the per-recipient procedure starts gets exactly
\* one SendRecord reflecting the outcome, whether the send succeeded, failed, or
\* rendering or sending raised.
C4_RecordForEveryOutcome ==
    [][\A r \in Recipients :
          ProcedureStarted(r)
              => /\ RecordAppended(r)
                 /\ sessHistory'[Len(sessHistory')].is_success
                        = (attempts'[r] = "sent")]_vars

\* the rows a committing delivery run adds to send_history
NewRows == SubSeq(send_history', Len(send_history) + 1, Len(send_history'))

\* the delivery run's session commits in this step
DeliveryCommits ==
    /\ pc = "delivering"
    /\ todo = <<>>
    /\ pc' = "idle"
    /\ result' \in {"done", "returned"}

\* C5: partial-failure isolation. In a delivery run whose only failure is the
\* transport failing for one recipient k, the failure does not end the loop
\* (the recipients after k are still visited), and when the run commits it has
\* added one SendRecord per eligible recipient, exactly one of them failed.
C5_PartialFailureIsolation ==
    [][/\ \A k \in Recipients :
            (attempts'[k] # attempts[k] /\ attempts'[k] = "failed")
                => /\ pc' = "delivering"
                   /\ todo' = Tail(todo)
                   /\ RecordAppended(k)
                   /\ ~sessHistory'[Len(sessHistory')].is_success
       /\ (/\ DeliveryCommits
           /\ Cardinality({k \in Recipients : attempts[k] = "failed"}) = 1
           /\ \A r \in Recipients : attempts[r] # "raised")
            => LET eligible == {r \in Recipients : attempts[r] \in {"failed", "sent"}}
               IN /\ Len(NewRows) = Cardinality(eligible)
                  /\ \A r \in eligible :
                        Cardinality({i \in 1..Len(NewRows) :
                                        NewRows[i].recipient_id = r}) = 1
                  /\ Cardinality({i \in 1..Len(NewRows) :
                                        ~NewRows[i].is_success}) = 1
                  /\ \A r \in Recipients :
                        recipients[r].is_active => attempts[r] # "none"]_vars

\* the loop is over: recipient 1 failed, recipient 2 after it was sent to
C5_Witness ==
    /\ pc = "delivering"
    /\ todo = <<>>
    /\ attempts[1] = "failed"
    /\ attempts[2] = "sent"
    /\ Len(sessHistory) = 2

\* the articles a digest may hold now: processed, not duplicate, collected on
\* the current day
EligibleArticles ==
    {l \in Links :
        /\ articles[l].stored
        /\ articles[l].is_processed
        /\ ~articles[l].is_duplicate
        /\ DayOf(articles[l].collected_at) = DayOf(utcnow)}

\* C6: empty-content guard. A delivery step that starts with no eligible
\* article enters no recipient loop: nothing is handed to the transport and no
\* SendRecord is created.
C6_EmptyContentGuard ==
    [][(pc = "deliver_begin" /\ EligibleArticles = {})
          => /\ pc' # "delivering"
             /\ attempts' = NoAttempts
             /\ sessHistory' = <<>>
             /\ send_history' = send_history]_vars

\* delivery is about to start with articles of today that are all unprocessed
C6_Witness ==
    /\ pc = "deliver_begin"
    /\ gmailConfigured
    /\ get_all_active # <<>>
    /\ EligibleArticles = {}
    /\ get_today_articles(articles, FALSE) # {}

\* the loop visits recipient r in this step
Visits(r) ==
    /\ pc = "delivering"
    /\ pc' = "delivering"
    /\ todo # <<>>
    /\ Head(todo) = r
    /\ todo' = Tail(todo)

\* C7: a failed SendRecord does not block its recipient. A delivery run that
\* visits a recipient holding only failed records of the day starts the
\* per-recipient procedure for them again; a send the transport accepts leaves
\* a successful SendRecord of the day in the session, which the run's commit
\* stores; and a recipient holding a committed success of the day is not
\* attempted again.
C7_FailedStaysEligible ==
    [][\A r \in Recipients :
          /\ (/\ Visits(r)
              /\ FailedOn(send_history, r, DayOf(utcnow))
              /\ ~SentOn(SessionHistory, r, DayOf(utcnow)))
                => ProcedureStarted(r)
          /\ (attempts'[r] # attempts[r] /\ attempts'[r] = "sent")
                => SentOn(send_history' \o sessHistory', r, DayOf(utcnow))
          /\ (DeliveryCommits /\ attempts[r] = "sent")
                => \E i \in 1..Len(NewRows) :
                      NewRows[i].recipient_id = r /\ NewRows[i].is_success
          /\ SentOn(send_history, r, DayOf(utcnow)) => ~SendAttempted(r)]_vars

\* a recipient with a failed record of today has now been sent to
C7_Witness ==
    \E r \in Recipients :
        /\ attempts[r] = "sent"
        /\ FailedOn(send_history, r, DayOf(utcnow))
        /\ SentOn(sessHistory, r, DayOf(utcnow))

\* C8: a full run does not end without analysis and delivery while collected
\* articles are unprocessed or analysed articles of today are unsent.
C8_NextRunResumes ==
    (pc = "idle" /\ result = "no_news")
        => /\ get_unprocessed(articles, UnprocessedLimit) = {}
           /\ (gmailConfigured /\ EligibleArticles # {})
                => \A r \in Recipients :
                      recipients[r].is_active
                          => SentOn(send_history, r, DayOf(utcnow))

\* the stage of run_daily_job a position belongs to
Stage(p) ==
    CASE p \in {"collect_begin", "collecting"} -> "Collecting"
      [] p \in {"process_begin", "processing"} -> "Analyzing"
      [] p \in {"deliver_begin", "delivering"} -> "Delivering"
      [] OTHER -> "Idle"

\* C9: a full run goes through Collecting, Analyzing, Delivering in this order:
\* analysis starts only when collection has finished, delivery only when
\* analysis has finished, and the run ends by returning (Done) or in the
\* failure of the stage it was in, never by raising to its caller.
C9_StageOrder ==
    [][mode = "daily" =>
          /\ (Stage(pc') = "Collecting") => Stage(pc) = "Collecting"
          /\ (Stage(pc') = "Analyzing" /\ Stage(pc) # "Analyzing")
                => pc = "collecting" /\ articles' = sessArticles
          /\ (Stage(pc') = "Delivering" /\ Stage(pc) # "Delivering")
                => pc = "processing" /\ unprocessed = {}
                   /\ articles' = sessArticles
          /\ (pc' = "idle" /\ result' # "killed")
                => /\ result' \in {"done", "no_news", "failed_collecting",
                                   "failed_analyzing", "failed_delivering"}
                   /\ result' = "done" => Stage(pc) = "Delivering"
                   /\ result' = "no_news" => Stage(pc) = "Collecting"
                   /\ result' = "failed_collecting" => Stage(pc) = "Collecting"
                   /\ result' = "failed_analyzing" => Stage(pc) = "Analyzing"
                   /\ result' = "failed_delivering" => Stage(pc) = "Delivering"]_vars

\* a full run has gone through every stage and delivered
C9_Witness ==
    /\ pc = "idle"
    /\ result = "done"
    /\ send_history # <<>>

\* C10: a full run without collection credentials ends as a failure of the
\* collection stage and notifies the alerting collaborator.
C10_CollectionFailureSurfaced ==
    (/\ pc = "idle"
     /\ ~naverCreds
     /\ result \in {"done", "no_news", "failed_collecting", "failed_analyzing",
                    "failed_delivering"})
        => result = "failed_collecting" /\ alerts > 0

\* a delivery run ends in this step otherwise than by being killed
DeliveryRunEnds ==
    /\ pc = "delivering"
    /\ pc' = "idle"
    /\ result' # "killed"

\* C11: escalation. A delivery run in which at least one send attempt failed
\* has notified the alerting collaborator by the time it ends.
C11_FailureEscalated ==
    [][(DeliveryRunEnds /\ \E r \in Recipients : attempts[r] = "failed")
          => alerts' > 0]_vars

\* C15: article lifecycle. When a delivery run that sent the digest
\* successfully to a recipient commits, every article of that digest has
\* is_sent = true.
C15_SentAfterDigest ==
    [][(DeliveryCommits /\ \E r \in Recipients : attempts[r] = "sent")
          => \A l \in digest : articles'[l].is_sent]_vars

\* no two rows have the same link
LinkUnique(rows) ==
    \A i, j \in DOMAIN rows : i # j => rows[i].link # rows[j].link

\* C12: link uniqueness. After any sequence of collection runs, alone or
\* beside a second collecting process, no two stored Articles have the same
\* link.
C12_LinkUnique == LinkUnique(store)

\* a run has gone through an article whose text is new and whose link is stored
C12_Witness ==
    /\ pc = "collecting"
    /\ rest = <<>>
    /\ \E i \in DOMAIN feed :
          /\ ExistsByLink(store, feed[i].link)
          /\ content_hash(feed[i]) \notin existing_hashes

\* C13: two distinct stored Articles have the same content fingerprint only if
\* one of them is flagged as a duplicate.
C13_FingerprintUnique ==
    \A i, j \in DOMAIN store :
        (i # j /\ store[i].content_hash = store[j].content_hash)
            => store[i].is_duplicate \/ store[j].is_duplicate

\* the number of articles of its collector output the open run has gone through
Handled == Len(feed) - Len(rest)

IsPrefix(a, b) == Len(a) <= Len(b) /\ SubSeq(b, 1, Len(a)) = a

\* C16: SendRecords form an append-only log. Every step leaves the stored
\* records as they are and at most adds records after them; the records a run
\* has written in its open session only grow, until the session commits them
\* to the log or is discarded.
C16_AppendOnlyLog ==
    [][/\ IsPrefix(send_history, send_history')
       /\ \/ IsPrefix(sessHistory, sessHistory')
          \/ /\ sessHistory' = <<>>
             /\ send_history' \in {send_history, send_history \o sessHistory}]_vars

\* a later run has added a record for a recipient after their earlier record
C16_Witness ==
    /\ pc = "idle"
    /\ result \in {"done", "returned"}
    /\ Len(send_history) = 2
    /\ send_history[1].recipient_id = send_history[2].recipient_id

\* C17: recipients are soft-deleted. No step removes a Recipient, unsubscribing
\* only clears is_active; the recipient of every SendRecord, stored or written
\* in the open session, is a row of the table; and the recipients a delivery
\* run selects are all active when it selects them.
C17_SoftDelete ==
    [][/\ registered \subseteq registered'
       /\ \A r \in Recipients : recipients'[r].is_active => r \in registered'
       /\ \A i \in 1..Len(send_history') :
             send_history'[i].recipient_id \in registered'
       /\ \A i \in 1..Len(sessHistory') :
             sessHistory'[i].recipient_id \in registered'
       /\ (pc = "deliver_begin" /\ pc' = "delivering")
             => \A i \in 1..Len(todo') : recipients[todo'[i]].is_active]_vars

\* a delivery run is through its recipients, and has not selected a recipient
\* who unsubscribed after an earlier run sent them the digest
C17_Witness ==
    /\ pc = "delivering"
    /\ todo = <<>>
    /\ \E r \in registered :
          /\ ~recipients[r].is_active
          /\ once # r
          /\ attempts[r] = "none"
          /\ SentAt(send_history, r) # NoTime

\* C18: content selection. The digest the delivery step builds holds exactly
\* the Articles that are processed, not duplicate and collected on the
\* calendar day (UTC) of the selection, each once, ordered by importance score
\* descending.
C18_ContentSelection ==
    call = <<"get_today_articles", TRUE>>
        => /\ {ret[i] : i \in DOMAIN ret} = EligibleArticles
           /\ Len(ret) = Cardinality(EligibleArticles)
           /\ \A i \in DOMAIN ret :
                 \A j \in DOMAIN ret :
                    i < j => articles[ret[i]].importance_score
                                 >= articles[ret[j]].importance_score

\* a digest of two articles of different scores, with the table holding them
\* in the other order
C18_Witness ==
    /\ call = <<"get_today_articles", TRUE>>
    /\ Len(ret) = 2
    /\ ret[1] > ret[2]
    /\ articles[ret[1]].importance_score > articles[ret[2]].importance_score

\* the least and the greatest element of a non-empty set of numbers
Least(S) == CHOOSE x \in S : \A y \in S : x <= y
Greatest(S) == CHOOSE x \in S : \A y \in S : x >= y

\* a text case-folded, then without the blanks around it
Normalized(s) ==
    LET folded == [i \in DOMAIN s |-> CASE s[i] = "A" -> "a" [] OTHER -> s[i]]
        inked == {i \in DOMAIN s : s[i] # " "}
    IN IF inked = {} THEN <<>>
       ELSE SubSeq(folded, Least(inked), Greatest(inked))

\* the arguments compute_hash can be called with
HashCalls == [title : Strings, content : Strings]

\* C19: the fingerprint is insensitive to letter case and to surrounding
\* whitespace. Any call of compute_hash returns what compute_hash returns for
\* every other (title, description) whose title + description text is the same
\* after trimming and case-folding.
C19_CaseAndBlankInsensitive ==
    ret # <<>>
        => \A other \in HashCalls :
              Normalized(other.title \o other.content)
                      = Normalized(call.title \o call.content)
                  => compute_hash(other.title, other.content) = ret

\* compute_hash has been called on a text with a capital and a blank after it
C19_Witness ==
    /\ ret # <<>>
    /\ call.title = <<"A">>
    /\ call.content = <<"b", " ">>
    /\ ret = compute_hash(<<"a">>, <<"b">>)

\* C20: the fingerprint distinguishes distinct inputs. Any (title, description)
\* that differs, as a pair of normalized texts, from the pair compute_hash was
\* called with has another fingerprint.
C20_DistinctPairsDiffer ==
    ret # <<>>
        => \A other \in HashCalls :
              <<Normalized(other.title), Normalized(other.content)>>
                      # <<Normalized(call.title), Normalized(call.content)>>
                  => compute_hash(other.title, other.content) # ret

\* the step is a call of check_duplicate
Checked == call'.op = "check_duplicate" /\ (call' # call \/ ret' # ret)

\* the fingerprint of the article the step checks
NewHash == compute_hash(call'.title, call'.content)

\* C21: a check of an article whose fingerprint is in the in-run cache or in
\* the recent hashes passed reports a duplicate with similarity 1.0 and the
\* article's own fingerprint as the matched one, computes no embedding and
\* leaves the in-run cache as it was
C21_ExactDuplicate ==
    [][Checked /\ (NewHash \in dedup.hash_cache
                      \/ NewHash \in call'.existing_hashes)
          => /\ ret'.result = DuplicateResult(TRUE, 100, NewHash)
             /\ ~ret'.embedded
             /\ dedup'.hash_cache = dedup.hash_cache
             /\ dedup'.embedding_cache = dedup.embedding_cache]_vars

\* an exact duplicate was reported by an instance that could have compared
\* embeddings
C21_Witness ==
    /\ call.op = "check_duplicate"
    /\ ret.result = DuplicateResult(TRUE, 100,
                                    compute_hash(call.title, call.content))
    /\ dedup.model
    /\ call.existing_embeddings # None
    /\ ~ret.embedded

\* C29: within one instance, an article whose check returned non-duplicate has
\* its fingerprint in the in-run cache, only clear_cache takes a fingerprint
\* out of the cache, and a check of an article whose fingerprint is in the cache
\* reports a duplicate of similarity 1.0 whatever recent hashes and embeddings
\* are passed: so every later check of the fingerprint does, until clear_cache
C29_AcceptedThenDuplicate ==
    [][/\ Checked /\ ~ret'.result.is_duplicate
              => NewHash \in dedup'.hash_cache
       /\ call'.op # "clear_cache"
              => dedup.hash_cache \subseteq dedup'.hash_cache
       /\ Checked /\ NewHash \in dedup.hash_cache
              => /\ ret'.result.is_duplicate
                 /\ ret'.result.similarity_score = 100]_vars

\* an article was reported a duplicate of one accepted earlier, under another
\* title, with no recent hash passed
C29_Witness ==
    /\ call.op = "check_duplicate"
    /\ call.title = <<"A">>
    /\ call.existing_hashes = {}
    /\ ret.result.is_duplicate
    /\ ret.result.similarity_score = 100
    /\ compute_hash(<<"a">>, <<>>) \in dedup.hash_cache

\* C30: with the embedding backend available, an article whose embedding is
\* within the threshold of the embedding of the article accepted by the call
\* before, on the same recent embeddings, is reported a duplicate
C30_NearDuplicateOfAccepted ==
    [][(/\ Checked
        /\ call.op = "check_duplicate"
        /\ ~ret.result.is_duplicate
        /\ ret.new_embedding # None
        /\ call'.existing_embeddings = call.existing_embeddings
        /\ ret'.new_embedding # None
        /\ cosine_similarity(ret'.new_embedding, ret.new_embedding)
               >= dedup.similarity_threshold)
          => ret'.result.is_duplicate]_vars

\* the classifier of the call does not ask the AI backend
BackendDisabled == ~(call.self.available /\ call.self.use_ollama)

\* the keywords of a category that occur in title + " " + content, letter
\* case apart
KeywordScore(category, title, content) ==
    Cardinality({k \in DOMAIN CATEGORY_KEYWORDS[category] :
                    In(lower(CATEGORY_KEYWORDS[category][k]),
                       lower(title \o <<" ">> \o content))})

\* the categories that have keywords, from the one that wins a tie
Priority == <<"REGULATORY", "MARKET", "TECHNOLOGY", "COMPETITOR", "PRODUCT">>

\* C22: with the AI backend disabled, classify returns the category of the
\* highest keyword score, of the categories with that score the first of
\* regulatory, market, technology, competitor, product, and general when every
\* score is zero
C22_KeywordStrategy ==
    call.op = "classify" /\ ret # <<>> /\ BackendDisabled
        => LET score(c) == KeywordScore(c, call.title, call.content)
           IN  IF \A i \in DOMAIN Priority : score(Priority[i]) = 0
               THEN ret[1] = "GENERAL"
               ELSE \E i \in DOMAIN Priority :
                       /\ ret[1] = Priority[i]
                       /\ \A j \in DOMAIN Priority :
                             score(Priority[j]) <= score(Priority[i])
                       /\ \A j \in DOMAIN Priority :
                             j < i => score(Priority[j]) < score(Priority[i])

\* a text with as many keywords of market as of product was classified market
C22_Witness ==
    /\ call.op = "classify"
    /\ ret = <<"MARKET">>
    /\ BackendDisabled
    /\ KeywordScore("PRODUCT", call.title, call.content)
           = KeywordScore("MARKET", call.title, call.content)

\* C23: with the AI backend disabled, the article of test_classify_competitor
\* is classified competitor
C23_CompetitorExample ==
    /\ call.op = "classify"
    /\ ret # <<>>
    /\ BackendDisabled
    /\ call.title = CompetitorTitle
    /\ call.content = CompetitorContent
    => ret[1] = "COMPETITOR"

\* C24: classify returns one of the six categories, and the category of the
\* keyword strategy when the AI call raises, times out or answers without a
\* digit from 1 to 6
C24_AlwaysACategory ==
    call.op = "classify" /\ ret # <<>>
        => /\ \E i \in DOMAIN CategoryType : ret[1] = CategoryType[i]
           /\ (\/ call.generate.raises # "no"
               \/ \A i \in DOMAIN call.generate.response :
                     call.generate.response[i]
                         \notin {"1", "2", "3", "4", "5", "6"})
                  => ret[1] = classify_by_keywords(call.title, call.content)

\* a classifier whose backend timed out returned a category found by keywords
C24_Witness ==
    /\ call.op = "classify"
    /\ call.self.available
    /\ call.generate.raises = "Timeout"
    /\ ret = <<"COMPETITOR">>

\* the title and the content classify_batch takes from a dict
TitleOf(article) == IF "title" \in DOMAIN article THEN article.title ELSE <<>>
ContentOf(article) ==
    IF "content" \in DOMAIN article
    THEN article.content
    ELSE IF "description" \in DOMAIN article THEN article.description ELSE <<>>

\* C25: classify_batch returns a list as long as its argument whose i-th
\* element is what classify returns for the i-th article taken alone
C25_BatchIsPointwise ==
    call.op = "classify_batch" /\ ret # <<>>
        => /\ Len(ret[1]) = Len(call.articles)
           /\ \A i \in 1..Len(call.articles) :
                 ret[1][i] = classify(call.self,
                                      TitleOf(call.articles[i]),
                                      ContentOf(call.articles[i]),
                                      call.generate[i])

\* a batch of two articles got two categories, the second from the backend
C25_Witness ==
    /\ call.op = "classify_batch"
    /\ Len(call.articles) = 2
    /\ ret = <<<<"REGULATORY", "COMPETITOR">>>>
    /\ call.generate[2].response = <<"4">>
    /\ call.generate[1].raises = "Timeout"

\* score_importance has returned
Scored == call.op = "score_importance" /\ ret # <<>>

\* the call got no number from the AI backend: there is no backend, the call
\* of it raised, or its answer holds no digit
NoNumber ==
    \/ ~call.self.available
    \/ call.generate.raises # "no"
    \/ \A i \in DOMAIN call.generate.response :
          call.generate.response[i] \notin {Digits[d] : d \in DOMAIN Digits}

\* the keywords of a list that occur in title + " " + content, lowered
Present(keywords, title, content) ==
    {keywords[k] : k \in {j \in DOMAIN keywords :
        In(keywords[j], lower(title \o <<" ">> \o content))}}

\* C26: the importance score returned is between 0.0 and 1.0, whatever
\* number is read from the AI answer and whatever the text
C26_ScoreInUnitInterval == Scored => ret[1] >= 0 /\ ret[1] <= 100

\* the backend answered 1.5 and the score returned is 1.0
C26_Witness ==
    /\ Scored
    /\ call.self.available
    /\ call.generate.raises = "no"
    /\ call.generate.response = <<"1", ".", "5">>
    /\ ret = <<100>>

\* C27: without a number from the AI backend the score is 0.5, plus 0.1 for
\* each high-impact keyword in the text, plus 0.05 for each medium one, minus
\* 0.1 for each low one, brought into [0, 1]
C27_HeuristicFormula ==
    Scored /\ NoNumber
        => LET sum == 50
                      + 10 * Cardinality(Present(high_keywords, call.title,
                                                 call.content))
                      + 5 * Cardinality(Present(medium_keywords, call.title,
                                                call.content))
                      - 10 * Cardinality(Present(low_keywords, call.title,
                                                 call.content))
           IN  ret[1] = IF sum < 0 THEN 0 ELSE IF sum > 100 THEN 100 ELSE sum

\* a backend that timed out: the score is that of six high keywords, two
\* medium and two low
C27_Witness ==
    /\ Scored
    /\ call.self.available
    /\ call.generate.raises = "Timeout"
    /\ ret = <<100>>
    /\ Cardinality(Present(low_keywords, call.title, call.content)) = 2

\* C28: on the heuristic path, the score of the text with one more
\* high-impact keyword, put as a word after the content or before the title, is
\* not below the score of the text
C28_MonotonicInHighKeywords ==
    Scored /\ NoNumber
        => \A k \in DOMAIN high_keywords :
              /\ fallback_importance(call.title,
                     call.content \o <<" ">> \o high_keywords[k]) >= ret[1]
              /\ fallback_importance(high_keywords[k] \o <<" ">> \o call.title,
                     call.content) >= ret[1]

\* a text with a low keyword and without a high one was scored below 0.5
C28_Witness ==
    /\ Scored
    /\ ~call.self.available
    /\ Present(high_keywords, call.title, call.content) = {}
    /\ ret = <<40>>

\* the similarities of the embedding the step computed to the embeddings passed
Similarities ==
    {cosine_similarity(ret'.new_embedding, call'.existing_embeddings[i][2]) :
        i \in DOMAIN call'.existing_embeddings}

\* C31: when the fingerprint matches nothing, the embedding backend is
\* available, the embedding of the article is computed and recent embeddings are
\* passed, the check reports a duplicate exactly when the greatest similarity
\* to a candidate is at least the threshold of the instance, and the duplicate
\* result carries that similarity and the hash of a candidate that attains it
C31_SemanticRule ==
    [][(/\ Checked
        /\ NewHash \notin dedup.hash_cache
        /\ NewHash \notin call'.existing_hashes
        /\ dedup.model
        /\ call'.existing_embeddings # None
        /\ ret'.new_embedding # None)
          => /\ ret'.result.is_duplicate
                    <=> Greatest(Similarities) >= dedup.similarity_threshold
             /\ ret'.result.is_duplicate
                    => /\ ret'.result.similarity_score = Greatest(Similarities)
                       /\ \E i \in DOMAIN call'.existing_embeddings :
                             /\ call'.existing_embeddings[i][1]
                                    = ret'.result.matched_hash
                             /\ cosine_similarity(ret'.new_embedding,
                                    call'.existing_embeddings[i][2])
                                    = Greatest(Similarities)]_vars

\* C32: a check in which the embedding cannot be computed returns the
\* hash-only outcome, not a duplicate and similarity 0.0, and leaves the
\* instance as it was but for the fingerprint added to the in-run cache
C32_EmbeddingFailure ==
    [][Checked /\ ret'.embedded /\ ret'.new_embedding = None
          => /\ ret'.result = DuplicateResult(FALSE, 0, None)
             /\ NewHash \in dedup'.hash_cache
             /\ dedup' = [dedup EXCEPT !.hash_cache = @ \cup {NewHash}]]_vars

\* the embedding of a second article could not be computed: the article is in
\* the cache with the first, the embedding of the first is kept
C32_Witness ==
    /\ call.op = "check_duplicate"
    /\ ret.embedded
    /\ ret.new_embedding = None
    /\ ~ret.result.is_duplicate
    /\ dedup.hash_cache = Hashes
    /\ dedup.embedding_cache # {}

\* C35: clear_cache empties both in-run caches, and the check that follows
\* it returns what a new instance returns for the same arguments
C35_ClearCache ==
    [][/\ call'.op = "clear_cache"
              => dedup'.hash_cache = {} /\ dedup'.embedding_cache = {}
       /\ Checked /\ call.op = "clear_cache"
              => ret'.result
                     = check_duplicate(
                           NewDeduplicator(dedup.model,
                                           dedup.similarity_threshold),
                           call'.title, call'.content,
                           call'.existing_hashes, call'.existing_embeddings,
                           ret'.new_embedding).result]_vars

\* the caches were cleared on an instance that can compare embeddings
C35_Witness ==
    /\ call.op = "clear_cache"
    /\ dedup.model
    /\ dedup.hash_cache = {}
    /\ dedup.embedding_cache = {}

\* C40: check_duplicate_simple returns true exactly when the fingerprint of
\* the article is among the hashes passed, whatever the in-run cache holds, and
\* leaves the instance as it was
C40_SimpleCheck ==
    [][call'.op = "check_duplicate_simple"
          => /\ ret'.result <=> NewHash \in call'.existing_hashes
             /\ dedup' = dedup]_vars

\* an article whose fingerprint is in the in-run cache and not among the
\* hashes passed was reported new
C40_Witness ==
    /\ call.op = "check_duplicate_simple"
    /\ ~ret.result
    /\ compute_hash(call.title, call.content) \in dedup.hash_cache


\* rows the open session has marked processed and the database has not yet
MarkedInRun == {l \in Links : /\ sessArticles[l].stored
                              /\ sessArticles[l].is_processed
                              /\ ~(articles[l].stored /\ articles[l].is_processed)}

\* the analysis result of a row: the fields update_analysis writes
Analysis(row) == <<row.is_processed, row.processed_at>>

\* C33: an analysis run changes only rows that were unprocessed and not
\* duplicate when it started, and a row the database holds as processed keeps
\* its processed flag and its analysis result through every later step, in the
\* database and in every session.
C33_ProcessedStays ==
    [][\A l \in Links :
          /\ (pc = "processing" /\ pc' = "processing"
                /\ sessArticles'[l] # sessArticles[l])
                => /\ articles[l].stored
                   /\ ~articles[l].is_processed
                   /\ ~articles[l].is_duplicate
          /\ (articles[l].stored /\ articles[l].is_processed)
                => /\ articles'[l].stored
                   /\ Analysis(articles'[l]) = Analysis(articles[l])
                   /\ Analysis(sessArticles'[l]) = Analysis(articles[l])]_vars

\* a later analysis run has analysed a new article while an article analysed
\* at an earlier time is in the database
C33_Witness ==
    /\ pc = "processing"
    /\ MarkedInRun # {}
    /\ \E l \in Links : /\ articles[l].stored
                        /\ articles[l].is_processed
                        /\ articles[l].processed_at < clock

\* C34: while the process lives and articles remain, a step (of the analysis
\* loop, or of the clock) either writes nothing and counts nothing, dropping at
\* most the one article whose analysis failed, or marks exactly one remaining
\* article processed and counts it; in both cases the loop goes on with the
\* other articles and nothing is raised; the count is the number of rows
\* marked processed in the run, and is what a committed run has added.
C34_ErrorIsolated ==
    [][(pc = "processing" /\ result' # "killed")
          => /\ processed_count = Cardinality(MarkedInRun)
             /\ unprocessed # {}
                  => /\ pc' = "processing"
                     /\ result' = result
                     /\ \E l \in unprocessed :
                          /\ unprocessed' \in {unprocessed, unprocessed \ {l}}
                          /\ \/ /\ processed_count' = processed_count
                                /\ sessArticles' = sessArticles
                             \/ /\ processed_count' = processed_count + 1
                                /\ unprocessed' = unprocessed \ {l}
                                /\ sessArticles'[l].is_processed
                                /\ \A k \in Links \ {l} :
                                      sessArticles'[k] = sessArticles[k]
             /\ (/\ unprocessed = {}
                 /\ pc' # "processing"
                 /\ result' \notin {"raised", "failed_analyzing"})
                  => processed_count =
                        Cardinality({l \in Links :
                            /\ articles'[l].stored /\ articles'[l].is_processed
                            /\ ~(articles[l].stored /\ articles[l].is_processed)})
      ]_vars

\* the loop is over: one article failed and stayed unprocessed, a later one
\* was analysed and counted
C34_Witness ==
    /\ pc = "processing"
    /\ unprocessed = {}
    /\ processed_count = 1
    /\ \E l \in Links : /\ sessArticles[l].stored
                        /\ ~sessArticles[l].is_processed
                        /\ \E k \in MarkedInRun :
                              sessArticles[k].collected_at < sessArticles[l].collected_at


\* the article the step of the collection loop is about
Incoming == NewsArticle(call')

\* the text compute_hash normalizes
Text(row) == lower(strip(row.title \o row.description))

\* C36: for every article the collection loop takes, the hash of NewsArticle,
\* the hash create stores for it and compute_hash(title, description) are one
\* value, and an article whose text differs only in letter case from the text
\* of a stored article is dropped, not created.
C36_FingerprintsAgree ==
    [][call' # call \/ ret' # ret
          => /\ Incoming.content_hash
                  = create(articles, to_dict(Incoming))[Incoming.link].content_hash
             /\ Incoming.content_hash
                  = compute_hash(Incoming.title, Incoming.description)
             /\ (\E l \in StoredLinks(articles) : Text(articles[l]) = Text(Incoming))
                  => ret' # <<"created">>]_vars


\* the rows a step has added to table send_history
Committed == Len(send_history) + 1 .. Len(send_history')

\* C37: while a delivery run is in its recipient loop, no other delivery run
\* commits a successful send to a recipient the open run has sent the digest
\* to with success for the same reporting date.
C37_NoConcurrentDoubleSend ==
    [][(pc = "delivering" /\ pc' = "delivering")
          => \A i \in Committed : \A j \in 1..Len(sessHistory) :
                ~ /\ send_history'[i].recipient_id = sessHistory[j].recipient_id
                  /\ send_history'[i].is_success
                  /\ sessHistory[j].is_success
                  /\ DayOf(send_history'[i].report_date)
                        = DayOf(sessHistory[j].report_date)]_vars

\* the digests the transport accepted for recipient r on the UTC day of t:
\* those of the web handlers and those with a SendRecord in hist
DigestsOn(sent, hist, r, t) ==
    (IF sent[r].day = DayOf(t) THEN sent[r].count ELSE 0)
        + Cardinality({i \in 1..Len(hist) : /\ hist[i].recipient_id = r
                                            /\ hist[i].is_success
                                            /\ DayOf(hist[i].sent_at) = DayOf(t)})

\* C38: a digest a web handler sends goes to a recipient not yet sent to today
\* and is recorded as a successful SendRecord of today, and after every step no
\* recipient has received more than one digest on the current day.
C38_EveryPathGuarded ==
    [][\A r \in Recipients :
          /\ web_sent'[r] # web_sent[r]
                => /\ ~already_sent_today_committed(r)
                   /\ \E i \in Committed :
                         /\ send_history'[i].recipient_id = r
                         /\ send_history'[i].is_success
                         /\ DayOf(send_history'[i].sent_at) = DayOf(utcnow)
          /\ DigestsOn(web_sent', send_history' \o sessHistory', r, clock') <= 1]_vars

\* C39: a step of the web routes that stores a Recipient or makes one active
\* finds the EmailVerification of that email stored with is_verified true.
C39_VerifiedBeforeActive ==
    [][\A r \in Recipients :
          (r \in registered' \ registered
              \/ (recipients'[r].is_active /\ ~recipients[r].is_active))
                => /\ verifications[r].stored
                   /\ verifications[r].is_verified]_vars

====
